---- MODULE Spec2Model ----
(***************************************************************************)
(* A model of ScheduleGenerator (src/api/services/scheduler.py): the       *)
(* demand-to-staff conversion, the greedy employee selection, the merge of *)
(* assigned hours into shifts with budget tracking, and generate_schedule. *)
(*                                                                         *)
(* Representation.                                                         *)
(*  - datetime.time values are minutes since midnight: time(h, m).         *)
(*  - hourly_rate and weekly_budget are whole currency units.  total_cost  *)
(*    and current_cost are held in sixtieths of a currency unit, so that   *)
(*    (work_minutes / 60) * hourly_rate is the integer                     *)
(*    work_minutes * hourly_rate; Money(x) converts currency units.        *)
(*  - a date is a day ordinal; ordinal 0 is a Monday (date.weekday() = 0). *)
(*  - Employee keeps id and hourly_rate (the names and skills are never    *)
(*    read by the generator); Alert keeps type, severity and details (the  *)
(*    message is a rendering of the details).                              *)
(*  - forecast_data is a function on <<day, hour>> pairs; the key          *)
(*    "day_{d}_hour_{h}" is the pair <<d, h>>.  None and {} are both the   *)
(*    empty function (both are falsy at line 59).                          *)
(*  - forecast_cache is an insertion-ordered dict, a sequence of           *)
(*    [week, data] items; data is a function on <<date, hour>> pairs with  *)
(*    values [demand, confidence].  A confidence is in hundredths (0.7 is  *)
(*    70); a demand and demand_per_staff are whole units.                  *)
(***************************************************************************)
EXTENDS Integers, Sequences, FiniteSets, TLC

\* ------------------------------------------------------------------------
\* Program constants
\* ------------------------------------------------------------------------

\* range(7) at line 381: Sunday .. Saturday
NumDays == 7

\* range(24) at line 382
NumHours == 24

\* work_minutes / 60 at line 336
MinutesPerHour == 60

Days == 0 .. (NumDays - 1)

Hours == 0 .. (NumHours - 1)

Money(units) == units * MinutesPerHour

Max(a, b) == IF a >= b THEN a ELSE b

Min(a, b) == IF a <= b THEN a ELSE b

\* datetime.time(hour, minute)
time(h, m) == h * MinutesPerHour + m

\* int(a / b) for b > 0: truncation toward zero
TruncDiv(a, b) == IF a >= 0 THEN a \div b ELSE -((-a) \div b)

\* ------------------------------------------------------------------------
\* demand_to_staff (lines 51-71)
\* ------------------------------------------------------------------------

peak_hours == (12 .. 14) \cup (18 .. 21)

\* faulty variant of HeuristicStaff: the evening peak ends one hour early
HeuristicStaffShortPeak(msph, h) ==
    IF h \in (12 .. 14) \cup (18 .. 20) THEN Max(2, msph)
    ELSE IF 6 <= h /\ h <= 23 THEN Max(1, msph)
    ELSE 0

HeuristicStaff(msph, h) ==
    IF h \in peak_hours THEN Max(2, msph)
    ELSE IF 6 <= h /\ h <= 23 THEN Max(1, msph)
    ELSE 0

\* faulty variant of demand_to_staff: the forecast value is floored at
\* min_staff_per_hour instead of 1
demand_to_staff_min_floor(msph, h, d, fd) ==
    IF DOMAIN fd # {} /\ <<d, h>> \in DOMAIN fd
    THEN Max(Max(1, msph), TruncDiv(fd[<<d, h>>], 10))
    ELSE HeuristicStaff(msph, h)

demand_to_staff(msph, h, d, fd) ==
    IF DOMAIN fd # {} /\ <<d, h>> \in DOMAIN fd
    THEN Max(1, TruncDiv(fd[<<d, h>>], 10))
    ELSE HeuristicStaff(msph, h)

\* ------------------------------------------------------------------------
\* pick_employees_greedy (lines 212-257)
\* ------------------------------------------------------------------------

\* the condition at lines 226-228
SlotMatches(slot, emp, target_day) ==
    /\ slot.employee_id = emp.id
    /\ slot.day_of_week = target_day
    /\ slot.is_available

\* faulty variant of FirstMatch: the last matching slot
FirstMatchLast(slots, emp, target_day) ==
    LET idx == {i \in 1 .. Len(slots) : SlotMatches(slots[i], emp, target_day)}
    IN  IF idx = {} THEN 0 ELSE CHOOSE i \in idx : \A j \in idx : i >= j

\* index of the slot at which the inner loop breaks (line 242); 0 when the
\* loop runs to its end
FirstMatch(slots, emp, target_day) ==
    LET idx == {i \in 1 .. Len(slots) : SlotMatches(slots[i], emp, target_day)}
    IN  IF idx = {} THEN 0 ELSE CHOOSE i \in idx : \A j \in idx : i <= j

\* faulty variant of InWindow: no wraparound branch
InWindowNoWrap(slot, target_time) ==
    slot.start_time <= target_time /\ target_time <= slot.end_time

\* faulty variant of InWindow: the end of a same-day window is exclusive
InWindowEndExclusive(slot, target_time) ==
    IF slot.start_time <= slot.end_time
    THEN slot.start_time <= target_time /\ target_time < slot.end_time
    ELSE target_time >= slot.start_time \/ target_time <= slot.end_time

\* lines 234-241
InWindow(slot, target_time) ==
    IF slot.start_time <= slot.end_time
    THEN slot.start_time <= target_time /\ target_time <= slot.end_time
    ELSE target_time >= slot.start_time \/ target_time <= slot.end_time

IsSuitable(emp, slots, target_day, target_hour) ==
    LET i == FirstMatch(slots, emp, target_day)
    IN  i # 0 /\ InWindow(slots[i], time(target_hour, 0))

\* the list built by the loop at lines 223-242, in input order
suitable_employees(emps, slots, target_day, target_hour) ==
    SelectSeq(emps, LAMBDA e : IsSuitable(e, slots, target_day, target_hour))

\* faulty variant of InsertByRate: e goes before the elements of equal rate
RECURSIVE InsertByRateBeforeEqual(_, _)
InsertByRateBeforeEqual(e, sorted) ==
    IF sorted = <<>> THEN <<e>>
    ELSE IF Head(sorted).hourly_rate < e.hourly_rate
         THEN <<Head(sorted)>> \o InsertByRateBeforeEqual(e, Tail(sorted))
         ELSE <<e>> \o sorted

\* list.sort(key = rate) is stable: e goes after every element whose rate is
\* not greater
RECURSIVE InsertByRate(_, _)
InsertByRate(e, sorted) ==
    IF sorted = <<>> THEN <<e>>
    ELSE IF Head(sorted).hourly_rate <= e.hourly_rate
         THEN <<Head(sorted)>> \o InsertByRate(e, Tail(sorted))
         ELSE <<e>> \o sorted

\* faulty variant of SortByRate: the list is left in input order
SortByRateSkipped(s) == s

RECURSIVE SortByRate(_)
SortByRate(s) ==
    IF s = <<>> THEN <<>>
    ELSE InsertByRate(s[Len(s)], SortByRate(SubSeq(s, 1, Len(s) - 1)))

InsufficientStaffAlert(target_day, target_hour, selected_count, required_count) ==
    [type     |-> "insufficient_staff",
     severity |-> "warning",
     details  |-> [day |-> target_day, hour |-> target_hour,
                   available |-> selected_count, required |-> required_count]]

\* faulty variant of pick_employees_greedy: no alert when nobody is suitable
pick_employees_greedy_silent_when_none(emps, slots, required_count, target_day, target_hour) ==
    LET sorted == SortByRate(suitable_employees(emps, slots, target_day, target_hour))
        selected_count == Min(required_count, Len(sorted))
    IN  [selected |-> SubSeq(sorted, 1, selected_count),
         alerts   |-> IF 0 < selected_count /\ selected_count < required_count
                      THEN <<InsufficientStaffAlert(target_day, target_hour,
                                                    selected_count, required_count)>>
                      ELSE <<>>]

\* faulty variant of pick_employees_greedy: the alert also fires when exactly
\* required_count employees are selected
pick_employees_greedy_alert_at_equal(emps, slots, required_count, target_day, target_hour) ==
    LET sorted == SortByRate(suitable_employees(emps, slots, target_day, target_hour))
        selected_count == Min(required_count, Len(sorted))
    IN  [selected |-> SubSeq(sorted, 1, selected_count),
         alerts   |-> IF selected_count <= required_count
                      THEN <<InsufficientStaffAlert(target_day, target_hour,
                                                    selected_count, required_count)>>
                      ELSE <<>>]

\* the returned list and the alerts appended to self.alerts
pick_employees_greedy(emps, slots, required_count, target_day, target_hour) ==
    LET sorted == SortByRate(suitable_employees(emps, slots, target_day, target_hour))
        selected_count == Min(required_count, Len(sorted))
    IN  [selected |-> SubSeq(sorted, 1, selected_count),
         alerts   |-> IF selected_count < required_count
                      THEN <<InsufficientStaffAlert(target_day, target_hour,
                                                    selected_count, required_count)>>
                      ELSE <<>>]

\* ------------------------------------------------------------------------
\* merge_hours_to_shifts (lines 259-318): the pure part
\* ------------------------------------------------------------------------

SeqToSet(s) == {s[i] : i \in 1 .. Len(s)}

\* day_hours.sort(): position k holds the element that k - 1 elements precede
\* (smaller ones, and equal ones that stand before it)
SortInts(s) ==
    LET n == Len(s)
        Rank(i) == Cardinality({j \in 1 .. n : s[j] < s[i] \/ (s[j] = s[i] /\ j < i)})
    IN  SubSeq([k \in 1 .. n |-> s[CHOOSE i \in 1 .. n : Rank(i) = k - 1]], 1, n)

\* keys of hours_by_day in insertion order (lines 277-281): the days of the
\* pairs, by first occurrence
DayKeys(pairs) ==
    LET n == Len(pairs)
        first == {i \in 1 .. n : \A j \in 1 .. (i - 1) : pairs[j][1] # pairs[i][1]}
    IN  SubSeq([k \in 1 .. Cardinality(first) |->
                   pairs[CHOOSE i \in first : Cardinality({j \in first : j < i}) = k - 1][1]],
               1, Cardinality(first))

\* hours_by_day[d], in insertion order (line 281)
HoursOfDay(pairs, d) ==
    LET of_day == SelectSeq(pairs, LAMBDA p : p[1] = d)
    IN  SubSeq([i \in 1 .. Len(of_day) |-> of_day[i][2]], 1, Len(of_day))

\* faulty variant of FillGap: the hours of the gap are not added
FillGapSkipped(current_range, h) == Append(current_range, h)

\* the fill loop at lines 300-302
FillGap(current_range, h) ==
    LET last == current_range[Len(current_range)]
        fill == [k \in 1 .. (h - last) |-> last + k]
    IN  current_range \o SelectSeq(fill, LAMBDA f : f \notin SeqToSet(current_range))

\* faulty variant of RangeLoop: gaps of up to 2 hours only (h <= last + 3)
RECURSIVE RangeLoopGap2(_, _, _)
RangeLoopGap2(rest, current_range, ranges) ==
    IF rest = <<>> THEN Append(ranges, current_range)
    ELSE LET h == Head(rest)
         IN  IF h <= current_range[Len(current_range)] + 3
             THEN RangeLoopGap2(Tail(rest), FillGap(current_range, h), ranges)
             ELSE RangeLoopGap2(Tail(rest), <<h>>, Append(ranges, current_range))

\* the loop at lines 296-306 followed by lines 309-310
RECURSIVE RangeLoop(_, _, _)
RangeLoop(rest, current_range, ranges) ==
    IF rest = <<>> THEN Append(ranges, current_range)
    ELSE LET h == Head(rest)
         IN  IF h <= current_range[Len(current_range)] + 4
             THEN RangeLoop(Tail(rest), FillGap(current_range, h), ranges)
             ELSE RangeLoop(Tail(rest), <<h>>, Append(ranges, current_range))

\* faulty variant of continuous_ranges: every hour is a range of its own
continuous_ranges_hourly(day_hours) == [i \in 1 .. Len(day_hours) |-> <<day_hours[i]>>]

\* continuous_ranges of one employee's sorted hours of one day (lines 292-310)
continuous_ranges(day_hours) ==
    IF day_hours = <<>> THEN <<>>
    ELSE RangeLoop(Tail(day_hours), <<Head(day_hours)>>, <<>>)

\* ------------------------------------------------------------------------
\* _create_shift (lines 320-359) and _get_date_for_day (lines 361-366)
\* ------------------------------------------------------------------------

\* faulty variant of get_date_for_day: the week starts on Monday
get_date_for_day_monday(today_, day_of_week) == today_ - (today_ % 7) + day_of_week

\* date.today() is the argument; date.weekday() is ordinal % 7 (Monday = 0)
get_date_for_day(today_, day_of_week) ==
    LET days_since_sunday == ((today_ % 7) + 1) % 7
        sunday == today_ - days_since_sunday
    IN  sunday + day_of_week

\* faulty variant of ShiftEndTime: no reduction by 24
ShiftEndTimeNoWrap(hours_range) == time(hours_range[Len(hours_range)] + 1, 0)

\* lines 324-330
ShiftEndTime(hours_range) ==
    LET end_hour == hours_range[Len(hours_range)] + 1
    IN  IF end_hour >= 24 THEN time(end_hour - 24, 0) ELSE time(end_hour, 0)

\* faulty variant of BreakMinutes: no floor at 0
BreakMinutesNoFloor(total_hours) == (total_hours - 4) * 15

\* line 334
BreakMinutes(total_hours) == Max(0, (total_hours - 4) * 15)

\* line 335
WorkMinutes(total_hours) == total_hours * 60 - BreakMinutes(total_hours)

\* line 336, in sixtieths of a currency unit
TotalCost(total_hours, hourly_rate) == WorkMinutes(total_hours) * hourly_rate

\* the Shift built at lines 350-359
NewShift(shift_id, today_, emp_id, d, hours_range, employee) ==
    [id            |-> shift_id,
     employee_id   |-> emp_id,
     date          |-> get_date_for_day(today_, d),
     start_time    |-> time(hours_range[1], 0),
     end_time      |-> ShiftEndTime(hours_range),
     break_minutes |-> BreakMinutes(Len(hours_range)),
     hourly_rate   |-> employee.hourly_rate,
     total_cost    |-> TotalCost(Len(hours_range), employee.hourly_rate)]

\* faulty variant of OverBudget: >= for >
OverBudgetAtLimit(cost_before, shift_cost, budget) ==
    cost_before + shift_cost >= Money(budget)

\* faulty variant of OverBudget: the cost of the shift alone is compared
OverBudgetShiftAlone(cost_before, shift_cost, budget) ==
    shift_cost > Money(budget)

\* the condition at line 339
OverBudget(cost_before, shift_cost, budget) ==
    cost_before + shift_cost > Money(budget)

\* faulty variant of CostAfter: = for +=
CostAfterAssigned(cost_before, shift_cost) == shift_cost

\* self.current_cost += total_cost (line 348)
CostAfter(cost_before, shift_cost) == cost_before + shift_cost

BudgetExceededAlert(cost_before, shift_cost, budget) ==
    [type     |-> "budget_exceeded",
     severity |-> "critical",
     details  |-> [current_cost |-> cost_before, shift_cost |-> shift_cost,
                   budget |-> Money(budget)]]

\* ------------------------------------------------------------------------
\* load_forecast (lines 111-123) and demand_to_staff_with_forecast
\* (lines 150-210)
\* ------------------------------------------------------------------------

\* the entry of one week built by the loop at lines 113-123; a later row
\* with the date and hour of an earlier one replaces it
WeekData(rows) ==
    LET keys == {<<rows[i].date, rows[i].hour>> : i \in 1 .. Len(rows)}
        last(k) == CHOOSE i \in 1 .. Len(rows) :
                      /\ <<rows[i].date, rows[i].hour>> = k
                      /\ \A j \in 1 .. Len(rows) :
                            <<rows[j].date, rows[j].hour>> = k => j <= i
    IN  [k \in keys |-> [demand |-> rows[last(k)].demand,
                         confidence |-> rows[last(k)].confidence]]

\* self.forecast_cache after lines 111-123 for a non-empty result
LoadRows(cache, week, rows) ==
    IF \E i \in 1 .. Len(cache) : cache[i].week = week
    THEN [i \in 1 .. Len(cache) |->
             IF cache[i].week = week THEN [week |-> week, data |-> WeekData(rows)]
             ELSE cache[i]]
    ELSE Append(cache, [week |-> week, data |-> WeekData(rows)])

\* the SQL NULL of a numeric column that holds no negative value; None in
\* a fetched row
NULL == -1

\* float(None) raises TypeError (lines 120-123)
BadRow(row) == row.demand = NULL \/ row.confidence = NULL

\* round(avg_confidence, 3) in thousandths, for confidences in hundredths:
\* the quotient 10 * total / count rounded to the nearest integer, a half to
\* the even one
round_avg_confidence(total, count) ==
    LET q == (10 * total) \div count
        r == (10 * total) % count
    IN  IF 2 * r > count \/ (2 * r = count /\ q % 2 = 1) THEN q + 1 ELSE q

RECURSIVE SumConfidence(_)
SumConfidence(rows) ==
    IF rows = <<>> THEN 0 ELSE Head(rows).confidence + SumConfidence(Tail(rows))

MissingForecastAlert(week, business_id) ==
    [type     |-> "missing_forecast",
     severity |-> "warning",
     details  |-> [week |-> week, business_id |-> business_id]]

ForecastLoadedAlert(week, rows) ==
    [type     |-> "forecast_loaded",
     severity |-> "info",
     details  |-> [forecasts_count |-> Len(rows),
                   average_confidence |-> round_avg_confidence(SumConfidence(rows), Len(rows)),
                   week |-> week]]

ForecastErrorAlert(week, error) ==
    [type     |-> "forecast_error",
     severity |-> "warning",
     details  |-> [week |-> week, error |-> error]]

\* lines 88-148: forecast_cache after the call, the alert appended and the
\* returned value.  result is what lines 97-99 give: the name of the
\* exception they raise, or the fetched rows.  A row with a None raises at
\* lines 120-123 after the rows before it are stored; such a row follows a
\* row of its own date, so that line 118 creates no empty day for it.
load_forecast(cache, business_id, week, result) ==
    IF result.error # "none"
    THEN [cache |-> cache, alerts |-> <<ForecastErrorAlert(week, result.error)>>,
          returned |-> FALSE]
    ELSE IF result.rows = <<>>
    THEN [cache |-> cache, alerts |-> <<MissingForecastAlert(week, business_id)>>,
          returned |-> FALSE]
    ELSE LET bad == {i \in 1 .. Len(result.rows) : BadRow(result.rows[i])}
             first_bad == CHOOSE i \in bad : \A j \in bad : i <= j
         IN  IF bad # {}
             THEN [cache |-> LoadRows(cache, week, SubSeq(result.rows, 1, first_bad - 1)),
                   alerts |-> <<ForecastErrorAlert(week, "TypeError")>>,
                   returned |-> FALSE]
             ELSE [cache |-> LoadRows(cache, week, result.rows),
                   alerts |-> <<ForecastLoadedAlert(week, result.rows)>>,
                   returned |-> TRUE]

\* lines 164-169
default_settings ==
    [demand_per_staff |-> 15, min_staff_per_hour |-> 1, max_staff_per_hour |-> 5,
     confidence_threshold |-> 70]

\* lines 171-172: settings is a record of some of the four keys, or the
\* empty function for None and {}
MergedSettings(settings) == settings @@ default_settings

DatesOf(data) == {k[1] : k \in DOMAIN data}

\* lines 175-179: position of the first cached week that holds target_date,
\* 0 when there is none
FindWeek(cache, target_date) ==
    LET idx == {i \in 1 .. Len(cache) : target_date \in DatesOf(cache[i].data)}
    IN  IF idx = {} THEN 0 ELSE CHOOSE i \in idx : \A j \in idx : i <= j

\* faulty variant of ConfidenceOk: > for >=
ConfidenceOkStrict(confidence, threshold) == confidence > threshold

\* line 189
ConfidenceOk(confidence, threshold) == confidence >= threshold

\* lines 191-197
ForecastStaff(demand, st) ==
    Min(Max(st.min_staff_per_hour, TruncDiv(demand, st.demand_per_staff)),
        st.max_staff_per_hour)

LowConfidenceAlert(target_date, h, confidence) ==
    [type     |-> "low_confidence_forecast",
     severity |-> "warning",
     details  |-> [date |-> target_date, hour |-> h, confidence |-> confidence]]

\* the returned value and the alerts appended to self.alerts; the fallback
\* at line 210 passes the weekday of target_date and no forecast_data
demand_to_staff_with_forecast(msph, cache, target_date, h, settings) ==
    LET st == MergedSettings(settings)
        w == FindWeek(cache, target_date)
        fallback == demand_to_staff(msph, h, target_date % 7, <<>>)
    IN  IF w # 0 /\ <<target_date, h>> \in DOMAIN cache[w].data
        THEN LET hour_data == cache[w].data[<<target_date, h>>]
             IN  IF ConfidenceOk(hour_data.confidence, st.confidence_threshold)
                 THEN [staff |-> ForecastStaff(hour_data.demand, st), alerts |-> <<>>]
                 ELSE [staff  |-> fallback,
                       alerts |-> <<LowConfidenceAlert(target_date, h,
                                                       hour_data.confidence)>>]
        ELSE [staff |-> fallback, alerts |-> <<>>]

\* ------------------------------------------------------------------------
\* employee_assignments: an insertion-ordered dict, as a sequence of
\* [emp_id, hours] items
\* ------------------------------------------------------------------------

\* {emp.id: [] for emp in employees} (line 378)
RECURSIVE EmptyAssignments(_, _)
EmptyAssignments(emps, acc) ==
    IF emps = <<>> THEN acc
    ELSE IF \E i \in 1 .. Len(acc) : acc[i].emp_id = Head(emps).id
         THEN EmptyAssignments(Tail(emps), acc)
         ELSE EmptyAssignments(Tail(emps),
                               Append(acc, [emp_id |-> Head(emps).id, hours |-> <<>>]))

\* faulty variant of HourPick: every suitable employee is taken
HourPickAllSuitable(h, d, msph, emps, slots, fd) ==
    LET required_staff == demand_to_staff(msph, h, d, fd)
        picked == pick_employees_greedy(emps, slots, required_staff, d, h)
    IN  IF required_staff = 0 THEN [selected |-> <<>>, alerts |-> <<>>]
        ELSE [selected |-> SortByRate(suitable_employees(emps, slots, d, h)),
              alerts   |-> picked.alerts]

\* what the iteration for hour h of day d selects and appends to self.alerts
\* (lines 383-391); an hour skipped at line 386 selects nobody
HourPick(h, d, msph, emps, slots, fd) ==
    LET required_staff == demand_to_staff(msph, h, d, fd)
    IN  IF required_staff = 0 THEN [selected |-> <<>>, alerts |-> <<>>]
        ELSE pick_employees_greedy(emps, slots, required_staff, d, h)

\* the iterations of the loop at line 382 for day d; hour h is at index h + 1
DayPicks(d, msph, emps, slots, fd) ==
    SubSeq([i \in 1 .. NumHours |-> HourPick(i - 1, d, msph, emps, slots, fd)],
           1, NumHours)

RECURSIVE ConcatAll(_)
ConcatAll(ss) == IF ss = <<>> THEN <<>> ELSE Head(ss) \o ConcatAll(Tail(ss))

\* faulty variant of DayAlerts: the alerts of the day from the last hour to
\* the first
DayAlertsLatestFirst(picks) ==
    ConcatAll(SubSeq([i \in 1 .. Len(picks) |-> picks[Len(picks) + 1 - i].alerts],
                     1, Len(picks)))

\* the alerts the hours of one day append to self.alerts, in hour order
DayAlerts(picks) ==
    ConcatAll(SubSeq([i \in 1 .. Len(picks) |-> picks[i].alerts], 1, Len(picks)))

\* the pairs the hours of day d append to the list of emp_id (lines 394-395),
\* in hour order: one (d, h) for each selected employee with that id
DayPairs(picks, d, emp_id) ==
    ConcatAll(SubSeq([i \in 1 .. Len(picks) |->
                         LET mine == SelectSeq(picks[i].selected,
                                               LAMBDA e : e.id = emp_id)
                         IN  SubSeq([k \in 1 .. Len(mine) |-> <<d, i - 1>>],
                                    1, Len(mine))],
                     1, Len(picks)))

\* employee_assignments after the hours of day d.  The loop body appends to
\* one list at a time and reads none of them, so every list is given here
\* by the items it receives, in the order of the hours.
DayAssignments(assignments, picks, d) ==
    SubSeq([k \in 1 .. Len(assignments) |->
               [assignments[k] EXCEPT
                   !.hours = @ \o DayPairs(picks, d, assignments[k].emp_id)]],
           1, Len(assignments))

\* employee_dict = {emp.id: emp ...}: the last employee with that id (line 266)
HasEmployee(emps, emp_id) == \E i \in 1 .. Len(emps) : emps[i].id = emp_id

EmployeeDictGet(emps, emp_id) ==
    LET idx == {i \in 1 .. Len(emps) : emps[i].id = emp_id}
    IN  emps[CHOOSE i \in idx : \A j \in idx : j <= i]

\* the blocks of one employee for the days of `days`, in order (lines 284-316)
RECURSIVE DayBlocks(_, _, _, _)
DayBlocks(emp_id, employee, pairs, days) ==
    IF days = <<>> THEN <<>>
    ELSE LET d == Head(days)
             ranges == continuous_ranges(SortInts(HoursOfDay(pairs, d)))
         IN  [k \in 1 .. Len(ranges) |->
                 [emp_id |-> emp_id, day |-> d, hours |-> ranges[k],
                  employee |-> employee]]
             \o DayBlocks(emp_id, employee, pairs, Tail(days))

\* every (emp_id, day, hours_range) for which line 315 runs, in the order of
\* the three nested loops at lines 268, 284 and 313.  The ranges are a pure
\* function of the assignments, so they are computed ahead of the shifts.
RECURSIVE MergeBlocks(_, _)
MergeBlocks(assignments, emps) ==
    IF assignments = <<>> THEN <<>>
    ELSE LET item == Head(assignments)
         IN  IF item.hours = <<>> \/ ~HasEmployee(emps, item.emp_id)
             THEN MergeBlocks(Tail(assignments), emps)
             ELSE DayBlocks(item.emp_id, EmployeeDictGet(emps, item.emp_id),
                            item.hours, DayKeys(item.hours))
                  \o MergeBlocks(Tail(assignments), emps)

\* ------------------------------------------------------------------------
\* State
\* ------------------------------------------------------------------------

\* ScheduleGenerator instances
Gens == {1, 2, 3}

\* method invocations (one frame each)
Calls == {1, 2, 3}

VARIABLES
    weekly_budget,        \* [Gens]  self.weekly_budget, currency units
    min_staff_per_hour,   \* [Gens]  self.min_staff_per_hour
    current_cost,         \* [Gens]  self.current_cost, sixtieths
    alerts,               \* [Gens]  self.alerts
    forecast_cache,       \* [Gens]  self.forecast_cache
    self,                 \* [Calls] the instance the method is invoked on
    op,                   \* [Calls] the method invoked, "none" before the call
    pc,                   \* [Calls] "idle", "assign", "merge", "done"
    employees,            \* [Calls] argument employees / available_employees
    availability,         \* [Calls] argument availability / availability_slots
    forecast_data,        \* [Calls] argument forecast_data
    arg,                  \* [Calls] the scalar arguments of a direct method call
    day,                  \* [Calls] loop variable of line 381
    employee_assignments, \* [Calls] local of generate_schedule / argument of merge
    blocks,               \* [Calls] hour blocks for which line 315 has yet to run
    shifts,               \* [Calls] local shifts of merge_hours_to_shifts
    ret,                  \* [Calls] the returned value
    today,                \* date.today()
    uuid_count,           \* number of uuid.uuid4() values drawn so far
    db                    \* the tables employees, availability, schedules and shifts

genVars == <<weekly_budget, min_staff_per_hour, current_cost, alerts, forecast_cache>>

inputVars == <<employees, availability, forecast_data, arg>>

frameVars == <<self, op, pc, day, employee_assignments, blocks, shifts, ret>>

vars == <<genVars, inputVars, frameVars, today, uuid_count, db>>

NoArg == [hour |-> 0, day |-> 0, required_count |-> 0]

\* the tables before any row is stored
EmptyDb == [employees |-> <<>>, availability |-> <<>>, schedules |-> <<>>, shifts |-> <<>>]

\* ------------------------------------------------------------------------
\* generate_schedule (lines 368-400)
\* ------------------------------------------------------------------------

\* faulty variant of generate_schedule: alerts is an attribute of the class,
\* the reset empties the list every generator uses
generate_schedule_class_alerts(c) ==
    /\ pc[c] = "idle"
    /\ op' = [op EXCEPT ![c] = "generate_schedule"]
    /\ current_cost' = [current_cost EXCEPT ![self[c]] = 0]
    /\ alerts' = [g \in Gens |-> <<>>]
    /\ employee_assignments' =
          [employee_assignments EXCEPT ![c] = EmptyAssignments(employees[c], <<>>)]
    /\ day' = [day EXCEPT ![c] = 0]
    /\ pc' = [pc EXCEPT ![c] = "assign"]
    /\ UNCHANGED <<weekly_budget, min_staff_per_hour, forecast_cache, inputVars,
                   self, blocks, shifts, ret, today, db, uuid_count>>

\* faulty variant of generate_schedule: self.alerts is not reset
generate_schedule_keeps_alerts(c) ==
    /\ pc[c] = "idle"
    /\ op' = [op EXCEPT ![c] = "generate_schedule"]
    /\ current_cost' = [current_cost EXCEPT ![self[c]] = 0]
    /\ employee_assignments' =
          [employee_assignments EXCEPT ![c] = EmptyAssignments(employees[c], <<>>)]
    /\ day' = [day EXCEPT ![c] = 0]
    /\ pc' = [pc EXCEPT ![c] = "assign"]
    /\ UNCHANGED <<weekly_budget, min_staff_per_hour, forecast_cache, alerts,
                   inputVars, self, blocks, shifts, ret, today, db, uuid_count>>

\* faulty variant of generate_schedule: self.current_cost is not reset
generate_schedule_keeps_cost(c) ==
    /\ pc[c] = "idle"
    /\ op' = [op EXCEPT ![c] = "generate_schedule"]
    /\ alerts' = [alerts EXCEPT ![self[c]] = <<>>]
    /\ employee_assignments' =
          [employee_assignments EXCEPT ![c] = EmptyAssignments(employees[c], <<>>)]
    /\ day' = [day EXCEPT ![c] = 0]
    /\ pc' = [pc EXCEPT ![c] = "assign"]
    /\ UNCHANGED <<weekly_budget, min_staff_per_hour, forecast_cache, current_cost,
                   inputVars, self, blocks, shifts, ret, today, db, uuid_count>>

\* lines 376-378
generate_schedule(c) ==
    /\ pc[c] = "idle"
    /\ op' = [op EXCEPT ![c] = "generate_schedule"]
    /\ current_cost' = [current_cost EXCEPT ![self[c]] = 0]
    /\ alerts' = [alerts EXCEPT ![self[c]] = <<>>]
    /\ employee_assignments' =
          [employee_assignments EXCEPT ![c] = EmptyAssignments(employees[c], <<>>)]
    /\ day' = [day EXCEPT ![c] = 0]
    /\ pc' = [pc EXCEPT ![c] = "assign"]
    /\ UNCHANGED <<weekly_budget, min_staff_per_hour, forecast_cache, inputVars, self, blocks,
                   shifts, ret, today, db, uuid_count>>

\* one iteration of the loop at line 381: hours 0 .. 23 of day[c]
AssignDay(c) ==
    /\ pc[c] = "assign"
    /\ day[c] < NumDays
    /\ \E picks \in {DayPicks(day[c], min_staff_per_hour[self[c]], employees[c],
                                availability[c], forecast_data[c])} :
           /\ employee_assignments' = [employee_assignments EXCEPT ![c] =
                 DayAssignments(@, picks, day[c])]
           /\ alerts' = [alerts EXCEPT ![self[c]] = @ \o DayAlerts(picks)]
    /\ day' = [day EXCEPT ![c] = @ + 1]
    /\ UNCHANGED <<weekly_budget, min_staff_per_hour, forecast_cache, current_cost, inputVars,
                   self, op, pc, blocks, shifts, ret, today, db, uuid_count>>

\* line 398: the call of merge_hours_to_shifts once the day loop is over
StartMerge(c) ==
    /\ pc[c] = "assign"
    /\ day[c] = NumDays
    /\ \E bs \in {MergeBlocks(employee_assignments[c], employees[c])} :
           blocks' = [blocks EXCEPT ![c] = bs]
    /\ shifts' = [shifts EXCEPT ![c] = <<>>]
    /\ pc' = [pc EXCEPT ![c] = "merge"]
    /\ UNCHANGED <<genVars, inputVars, self, op, day, employee_assignments, ret,
                   today, db, uuid_count>>

\* faulty variant of CreateShift: the budget is enforced, a block whose shift would
\* exceed it is dropped
CreateShiftEnforced(c) ==
    /\ pc[c] = "merge"
    /\ blocks[c] # <<>>
    /\ LET g == self[c]
           b == Head(blocks[c])
           shift == NewShift(uuid_count + 1, today, b.emp_id, b.day, b.hours, b.employee)
           over == OverBudget(current_cost[g], shift.total_cost, weekly_budget[g])
       IN  /\ alerts' = [alerts EXCEPT ![g] =
                 IF over
                 THEN Append(@, BudgetExceededAlert(current_cost[g], shift.total_cost,
                                                    weekly_budget[g]))
                 ELSE @]
           /\ current_cost' = [current_cost EXCEPT ![g] =
                 IF over THEN @ ELSE CostAfter(@, shift.total_cost)]
           /\ shifts' = [shifts EXCEPT ![c] = IF over THEN @ ELSE Append(@, shift)]
    /\ blocks' = [blocks EXCEPT ![c] = Tail(@)]
    /\ uuid_count' = uuid_count + 1
    /\ UNCHANGED <<weekly_budget, min_staff_per_hour, forecast_cache, inputVars, self, op, pc, day,
                   employee_assignments, ret, today, db>>

\* lines 315-316: _create_shift for the next block, and shifts.append
CreateShift(c) ==
    /\ pc[c] = "merge"
    /\ blocks[c] # <<>>
    /\ LET g == self[c]
           b == Head(blocks[c])
           shift == NewShift(uuid_count + 1, today, b.emp_id, b.day, b.hours, b.employee)
       IN  /\ alerts' = [alerts EXCEPT ![g] =
                 IF OverBudget(current_cost[g], shift.total_cost, weekly_budget[g])
                 THEN Append(@, BudgetExceededAlert(current_cost[g], shift.total_cost,
                                                    weekly_budget[g]))
                 ELSE @]
           /\ current_cost' = [current_cost EXCEPT ![g] = CostAfter(@, shift.total_cost)]
           /\ shifts' = [shifts EXCEPT ![c] = Append(@, shift)]
    /\ blocks' = [blocks EXCEPT ![c] = Tail(@)]
    /\ uuid_count' = uuid_count + 1
    /\ UNCHANGED <<weekly_budget, min_staff_per_hour, forecast_cache, inputVars, self, op, pc, day,
                   employee_assignments, ret, today, db>>

\* line 318, and line 400 for generate_schedule
Return(c) ==
    /\ pc[c] = "merge"
    /\ blocks[c] = <<>>
    /\ ret' = [ret EXCEPT ![c] =
          IF op[c] = "generate_schedule"
          THEN [shifts |-> shifts[c], alerts |-> alerts[self[c]]]
          ELSE [shifts |-> shifts[c]]]
    /\ pc' = [pc EXCEPT ![c] = "done"]
    /\ UNCHANGED <<genVars, inputVars, self, op, day, employee_assignments, blocks,
                   shifts, today, db, uuid_count>>

\* ------------------------------------------------------------------------
\* Direct calls of the other public methods
\* ------------------------------------------------------------------------

\* demand_to_staff(arg.hour, arg.day, forecast_data)
CallDemandToStaff(c) ==
    /\ pc[c] = "idle"
    /\ op' = [op EXCEPT ![c] = "demand_to_staff"]
    /\ ret' = [ret EXCEPT ![c] =
          [staff |-> demand_to_staff(min_staff_per_hour[self[c]], arg[c].hour,
                                     arg[c].day, forecast_data[c])]]
    /\ pc' = [pc EXCEPT ![c] = "done"]
    /\ UNCHANGED <<genVars, inputVars, self, day, employee_assignments, blocks,
                   shifts, today, db, uuid_count>>

\* pick_employees_greedy(employees, availability, arg.required_count, arg.day, arg.hour)
CallPickEmployeesGreedy(c) ==
    /\ pc[c] = "idle"
    /\ op' = [op EXCEPT ![c] = "pick_employees_greedy"]
    /\ LET p == pick_employees_greedy(employees[c], availability[c],
                                      arg[c].required_count, arg[c].day, arg[c].hour)
       IN  /\ ret' = [ret EXCEPT ![c] = [selected |-> p.selected]]
           /\ alerts' = [alerts EXCEPT ![self[c]] = @ \o p.alerts]
    /\ pc' = [pc EXCEPT ![c] = "done"]
    /\ UNCHANGED <<weekly_budget, min_staff_per_hour, forecast_cache, current_cost, inputVars,
                   self, day, employee_assignments, blocks, shifts, today, db, uuid_count>>

\* merge_hours_to_shifts(employee_assignments, employees): lines 265-310
CallMergeHoursToShifts(c) ==
    /\ pc[c] = "idle"
    /\ op' = [op EXCEPT ![c] = "merge_hours_to_shifts"]
    /\ blocks' = [blocks EXCEPT ![c] = MergeBlocks(employee_assignments[c], employees[c])]
    /\ shifts' = [shifts EXCEPT ![c] = <<>>]
    /\ pc' = [pc EXCEPT ![c] = "merge"]
    /\ UNCHANGED <<genVars, inputVars, self, day, employee_assignments, ret,
                   today, db, uuid_count>>

\* demand_to_staff_with_forecast(arg.target_date, arg.hour, arg.settings)
CallDemandToStaffWithForecast(c) ==
    /\ pc[c] = "idle"
    /\ op' = [op EXCEPT ![c] = "demand_to_staff_with_forecast"]
    /\ LET r == demand_to_staff_with_forecast(min_staff_per_hour[self[c]],
                                              forecast_cache[self[c]],
                                              arg[c].target_date, arg[c].hour,
                                              arg[c].settings)
       IN  /\ ret' = [ret EXCEPT ![c] = [staff |-> r.staff]]
           /\ alerts' = [alerts EXCEPT ![self[c]] = @ \o r.alerts]
    /\ pc' = [pc EXCEPT ![c] = "done"]
    /\ UNCHANGED <<weekly_budget, min_staff_per_hour, forecast_cache, current_cost,
                   inputVars, self, day, employee_assignments, blocks, shifts,
                   today, db, uuid_count>>

\* load_forecast(arg.business_id, arg.week), the database answering with
\* arg.result
CallLoadForecast(c) ==
    /\ pc[c] = "idle"
    /\ op' = [op EXCEPT ![c] = "load_forecast"]
    /\ \E r \in {load_forecast(forecast_cache[self[c]], arg[c].business_id,
                                arg[c].week, arg[c].result)} :
          /\ forecast_cache' = [forecast_cache EXCEPT ![self[c]] = r.cache]
          /\ alerts' = [alerts EXCEPT ![self[c]] = @ \o r.alerts]
          /\ ret' = [ret EXCEPT ![c] = [returned |-> r.returned]]
    /\ pc' = [pc EXCEPT ![c] = "done"]
    /\ UNCHANGED <<weekly_budget, min_staff_per_hour, current_cost, inputVars, self,
                   day, employee_assignments, blocks, shifts, today, db, uuid_count>>

\* ------------------------------------------------------------------------
\* Bounds and input sets
\* ------------------------------------------------------------------------

\* longest employee list
MaxEmployees == 2

\* longest availability list
MaxSlots == 2

\* largest required_count handed to pick_employees_greedy directly
MaxRequired == 2

\* largest min_staff_per_hour handed to demand_to_staff directly
MaxMinStaff == 3

\* most hours of one day in an assignment list handed to merge directly
MaxAssigned == 3

RateChoices == {10, 20}

\* employee i of a list has id i
EmployeeLists ==
    UNION {{[i \in 1 .. k |-> [id |-> i, hourly_rate |-> r[i]]] :
               r \in [1 .. k -> RateChoices]} : k \in 0 .. MaxEmployees}

SeqsUpTo(S, n) == UNION {[1 .. k -> S] : k \in 0 .. n}

\* ids an availability slot may carry; an id above Len(employees) is the id
\* of no employee
SlotEmployeeIds == {1, 2}

Slot(e, d, s, t, a) ==
    [employee_id |-> e, day_of_week |-> d, start_time |-> s, end_time |-> t,
     is_available |-> a]

\* windows of the generate_schedule runs: Sunday 09:00-21:00 and Saturday
\* 21:00-08:00 (start > end)
GenerateSlots ==
    {Slot(e, 0, time(9, 0), time(21, 0), TRUE) : e \in SlotEmployeeIds}
    \cup {Slot(e, 6, time(21, 0), time(8, 0), TRUE) : e \in SlotEmployeeIds}

BudgetChoices == {60, 100, 120}

MinStaffChoices == {1, 2}

\* no forecast, or a forecast for three slots, one of them (Saturday 03:00)
\* an hour the heuristic treats as closed
ForecastChoices == {<<>>, (<<6, 3>> :> 30) @@ (<<0, 10>> :> 25) @@ (<<0, 22>> :> 5)}

\* a Monday and a Sunday
TodayChoices == {0, 6}

\* rates of the employee whose hours are merged directly
MergeRateChoices == {10, 50}

\* windows of the direct pick_employees_greedy calls, whose target day is
\* Monday: Monday 22:00-06:00, Sunday 22:30-05:30, Monday 09:30-17:00
\* available and not available
PickSlots ==
    {Slot(e, 1, time(22, 0), time(6, 0), TRUE) : e \in SlotEmployeeIds}
    \cup {Slot(e, 0, time(22, 30), time(5, 30), TRUE) : e \in SlotEmployeeIds}
    \cup {Slot(e, 1, time(9, 30), time(17, 0), TRUE) : e \in SlotEmployeeIds}
    \cup {Slot(e, 1, time(9, 30), time(17, 0), FALSE) : e \in SlotEmployeeIds}

\* strictly increasing sequences of at most n hours
RECURSIVE IncreasingHours(_)
IncreasingHours(n) ==
    IF n = 0 THEN {<<>>}
    ELSE LET shorter == IncreasingHours(n - 1)
         IN  shorter \cup
             UNION {{Append(s, h) : h \in {x \in Hours : s = <<>> \/ x > s[Len(s)]}} :
                       s \in {x \in shorter : Len(x) = n - 1}}

\* every run a, a+1, .., a+n-1 of hours of one day
HourIntervals ==
    UNION {{[i \in 1 .. n |-> a + i - 1] : n \in 1 .. (NumHours - a)} : a \in Hours}

Reverse(s) == [i \in 1 .. Len(s) |-> s[Len(s) + 1 - i]]


IdleFrames ==
    /\ self = [c \in Calls |-> IF c \in Gens THEN c ELSE 1]
    /\ op = [c \in Calls |-> "none"]
    /\ pc = [c \in Calls |-> "idle"]
    /\ day = [c \in Calls |-> 0]
    /\ blocks = [c \in Calls |-> <<>>]
    /\ shifts = [c \in Calls |-> <<>>]
    /\ ret = [c \in Calls |-> <<>>]
    /\ uuid_count = 0

\* __init__ (lines 44-49)
FreshGens(budget, msph) ==
    /\ weekly_budget = budget
    /\ min_staff_per_hour = msph
    /\ current_cost = [g \in Gens |-> 0]
    /\ alerts = [g \in Gens |-> <<>>]
    /\ forecast_cache = [g \in Gens |-> <<>>]

\* ------------------------------------------------------------------------
\* Spec: one generate_schedule run on a fresh generator
\* ------------------------------------------------------------------------

Init ==
    \E b \in BudgetChoices, m \in MinStaffChoices, e \in EmployeeLists,
       a \in SeqsUpTo(GenerateSlots, MaxSlots), f \in ForecastChoices :
        /\ FreshGens([g \in Gens |-> b], [g \in Gens |-> m])
        /\ IdleFrames
        /\ employees = [c \in Calls |-> e]
        /\ availability = [c \in Calls |-> a]
        /\ forecast_data = [c \in Calls |-> f]
        /\ arg = [c \in Calls |-> NoArg]
        /\ employee_assignments = [c \in Calls |-> <<>>]
        /\ today = 3
        /\ db = EmptyDb

Next ==
    \/ generate_schedule(1)
    \/ AssignDay(1)
    \/ StartMerge(1)
    \/ CreateShift(1)
    \/ Return(1)

Spec == Init /\ [][Next]_vars

\* StartMerge(1) can be taken exactly when the day loop is over
StartMergeEnabled == pc[1] = "assign" /\ day[1] = NumDays

\* SpecLive: the runs of Spec with a budget of 100, under fairness.  The
\* run is sequential code that nothing suspends: a step that can be
\* taken is taken.  The last conjunct is WF_vars(StartMerge(1)) with
\* ENABLED written as the guard of the action.
InitLive ==
    \E m \in MinStaffChoices, e \in EmployeeLists,
       a \in SeqsUpTo(GenerateSlots, MaxSlots), f \in ForecastChoices :
        /\ FreshGens([g \in Gens |-> 100], [g \in Gens |-> m])
        /\ IdleFrames
        /\ employees = [c \in Calls |-> e]
        /\ availability = [c \in Calls |-> a]
        /\ forecast_data = [c \in Calls |-> f]
        /\ arg = [c \in Calls |-> NoArg]
        /\ employee_assignments = [c \in Calls |-> <<>>]
        /\ today = 3
        /\ db = EmptyDb

SpecLive ==
    /\ InitLive
    /\ [][Next]_vars
    /\ WF_vars(generate_schedule(1))
    /\ WF_vars(AssignDay(1))
    /\ WF_vars(CreateShift(1))
    /\ WF_vars(Return(1))
    /\ ([]<>~StartMergeEnabled \/ []<><<StartMerge(1)>>_vars)

\* ------------------------------------------------------------------------
\* SpecBudgets: the same inputs given to two generators that differ in
\* weekly_budget only, one run each, the second after the first
\* ------------------------------------------------------------------------

InitBudgets ==
    \E b1 \in BudgetChoices, b2 \in BudgetChoices, e \in EmployeeLists,
       a \in SeqsUpTo(GenerateSlots, MaxSlots), f \in ForecastChoices :
        /\ b1 < b2
        /\ FreshGens((1 :> b1) @@ (2 :> b2) @@ (3 :> b2), [g \in Gens |-> 1])
        /\ IdleFrames
        /\ employees = [c \in Calls |-> e]
        /\ availability = [c \in Calls |-> a]
        /\ forecast_data = [c \in Calls |-> f]
        /\ arg = [c \in Calls |-> NoArg]
        /\ employee_assignments = [c \in Calls |-> <<>>]
        /\ today = 3
        /\ db = EmptyDb

NextBudgets ==
    \E c \in {1, 2} :
        /\ c = 1 \/ pc[1] = "done"
        /\ \/ generate_schedule(c)
           \/ AssignDay(c)
           \/ StartMerge(c)
           \/ CreateShift(c)
           \/ Return(c)

SpecBudgets == InitBudgets /\ [][NextBudgets]_vars

\* ------------------------------------------------------------------------
\* SpecDemand: demand_to_staff called directly
\* ------------------------------------------------------------------------

InitDemand ==
    \E m \in 0 .. MaxMinStaff, h \in Hours, d \in Days, f \in ForecastChoices :
        /\ FreshGens([g \in Gens |-> 100], [g \in Gens |-> m])
        /\ IdleFrames
        /\ employees = [c \in Calls |-> <<>>]
        /\ availability = [c \in Calls |-> <<>>]
        /\ forecast_data = [c \in Calls |-> f]
        /\ arg = [c \in Calls |-> [hour |-> h, day |-> d, required_count |-> 0]]
        /\ employee_assignments = [c \in Calls |-> <<>>]
        /\ today = 3
        /\ db = EmptyDb

NextDemand == CallDemandToStaff(1)

SpecDemand == InitDemand /\ [][NextDemand]_vars

\* ------------------------------------------------------------------------
\* SpecPick: pick_employees_greedy called directly for an hour of Monday
\* ------------------------------------------------------------------------

InitPick ==
    \E e \in EmployeeLists, a \in SeqsUpTo(PickSlots, MaxSlots), h \in Hours,
       n \in 0 .. MaxRequired :
        /\ FreshGens([g \in Gens |-> 100], [g \in Gens |-> 1])
        /\ IdleFrames
        /\ employees = [c \in Calls |-> e]
        /\ availability = [c \in Calls |-> a]
        /\ forecast_data = [c \in Calls |-> <<>>]
        /\ arg = [c \in Calls |-> [hour |-> h, day |-> 1, required_count |-> n]]
        /\ employee_assignments = [c \in Calls |-> <<>>]
        /\ today = 3
        /\ db = EmptyDb

NextPick == CallPickEmployeesGreedy(1)

SpecPick == InitPick /\ [][NextPick]_vars

\* ------------------------------------------------------------------------
\* SpecMerge: merge_hours_to_shifts called directly with the hours of one
\* employee on Wednesday, in ascending or descending order
\* ------------------------------------------------------------------------

InitMerge ==
    \E e \in {<<>>} \cup {<<[id |-> 1, hourly_rate |-> r]>> : r \in MergeRateChoices},
       hs \in IncreasingHours(MaxAssigned) \cup HourIntervals,
       descending \in BOOLEAN, t \in TodayChoices :
        /\ FreshGens([g \in Gens |-> 100], [g \in Gens |-> 1])
        /\ IdleFrames
        /\ employees = [c \in Calls |-> e]
        /\ availability = [c \in Calls |-> <<>>]
        /\ forecast_data = [c \in Calls |-> <<>>]
        /\ arg = [c \in Calls |-> NoArg]
        /\ employee_assignments = [c \in Calls |->
              <<[emp_id |-> 1,
                 hours  |-> LET o == IF descending THEN Reverse(hs) ELSE hs
                            IN  [i \in 1 .. Len(o) |-> <<3, o[i]>>]]>>]
        /\ today = t
        /\ db = EmptyDb

NextMerge ==
    \/ CallMergeHoursToShifts(1)
    \/ CreateShift(1)
    \/ Return(1)

SpecMerge == InitMerge /\ [][NextMerge]_vars

\* ------------------------------------------------------------------------
\* SpecForecast: demand_to_staff_with_forecast called twice, one call after
\* the other in either order, on one generator whose forecast_cache was
\* loaded by load_forecast
\* ------------------------------------------------------------------------

Row(d, h, dem, conf) == [date |-> d, hour |-> h, demand |-> dem, confidence |-> conf]

\* rows for date 10: above, at and below the default threshold 0.7, with
\* quotients below min, above max and with a fraction above one half; 03:00
\* is an hour the heuristic treats as closed, 14:00 a peak hour
ForecastRows ==
    <<Row(10, 3, 40, 95), Row(10, 9, 25, 90), Row(10, 10, 100, 90),
      Row(10, 11, 30, 50), Row(10, 12, 45, 70), Row(10, 13, 5, 80),
      Row(10, 14, 40, 60)>>

\* nothing loaded; one week loaded; two weeks that both hold date 10, the
\* first of them with 09:00 only
CacheChoices ==
    {<<>>,
     LoadRows(<<>>, "2024-02", ForecastRows),
     LoadRows(LoadRows(<<>>, "2024-01", <<Row(10, 9, 60, 90)>>), "2024-02", ForecastRows)}

\* None, and settings that replace some of the defaults
SettingsChoices ==
    {<<>>,
     [demand_per_staff |-> 10],
     [min_staff_per_hour |-> 2, max_staff_per_hour |-> 3],
     [confidence_threshold |-> 50]}

ForecastDates == {10, 11}

InitForecast ==
    \E m \in MinStaffChoices, cache \in CacheChoices, st \in SettingsChoices,
       d \in ForecastDates, h1 \in Hours, h2 \in Hours :
        /\ weekly_budget = [g \in Gens |-> 100]
        /\ min_staff_per_hour = [g \in Gens |-> m]
        /\ current_cost = [g \in Gens |-> 0]
        /\ alerts = [g \in Gens |-> <<>>]
        /\ forecast_cache = [g \in Gens |-> cache]
        /\ self = [c \in Calls |-> 1]
        /\ op = [c \in Calls |-> "none"]
        /\ pc = [c \in Calls |-> "idle"]
        /\ day = [c \in Calls |-> 0]
        /\ blocks = [c \in Calls |-> <<>>]
        /\ shifts = [c \in Calls |-> <<>>]
        /\ ret = [c \in Calls |-> <<>>]
        /\ uuid_count = 0
        /\ employees = [c \in Calls |-> <<>>]
        /\ availability = [c \in Calls |-> <<>>]
        /\ forecast_data = [c \in Calls |-> <<>>]
        /\ arg = (1 :> [target_date |-> d, hour |-> h1, settings |-> st])
                 @@ (2 :> [target_date |-> d, hour |-> h2, settings |-> st])
                 @@ (3 :> NoArg)
        /\ employee_assignments = [c \in Calls |-> <<>>]
        /\ today = 3
        /\ db = EmptyDb

NextForecast == \E c \in {1, 2} : CallDemandToStaffWithForecast(c)

SpecForecast == InitForecast /\ [][NextForecast]_vars

\* ------------------------------------------------------------------------
\* SpecReuse: three generate_schedule runs, one after the other.  Runs 1
\* and 2 are on generator 1, run 3 is on generator 2, which has the same
\* configuration; runs 2 and 3 have the same inputs, run 1 has these inputs
\* too or the inputs EarlierRun
\* ------------------------------------------------------------------------

\* two employees available on Sunday 09:00-21:00
EarlierRun ==
    [employees    |-> <<[id |-> 1, hourly_rate |-> 20], [id |-> 2, hourly_rate |-> 10]>>,
     availability |-> <<Slot(1, 0, time(9, 0), time(21, 0), TRUE),
                        Slot(2, 0, time(9, 0), time(21, 0), TRUE)>>,
     forecast_data |-> <<>>]

InitReuse ==
    \E e \in EmployeeLists, a \in SeqsUpTo(GenerateSlots, MaxSlots),
       f \in ForecastChoices, same \in BOOLEAN :
        LET given == [employees |-> e, availability |-> a, forecast_data |-> f]
            first == IF same THEN given ELSE EarlierRun
        IN  /\ FreshGens([g \in Gens |-> 100], [g \in Gens |-> 1])
            /\ self = (1 :> 1) @@ (2 :> 1) @@ (3 :> 2)
            /\ op = [c \in Calls |-> "none"]
            /\ pc = [c \in Calls |-> "idle"]
            /\ day = [c \in Calls |-> 0]
            /\ blocks = [c \in Calls |-> <<>>]
            /\ shifts = [c \in Calls |-> <<>>]
            /\ ret = [c \in Calls |-> <<>>]
            /\ uuid_count = 0
            /\ employees = [c \in Calls |-> IF c = 1 THEN first.employees ELSE e]
            /\ availability = [c \in Calls |-> IF c = 1 THEN first.availability ELSE a]
            /\ forecast_data = [c \in Calls |-> IF c = 1 THEN first.forecast_data ELSE f]
            /\ arg = [c \in Calls |-> NoArg]
            /\ employee_assignments = [c \in Calls |-> <<>>]
            /\ today = 3
            /\ db = EmptyDb

NextReuse ==
    \E c \in Calls :
        /\ \A b \in Calls : b < c => pc[b] = "done"
        /\ \/ generate_schedule(c)
           \/ AssignDay(c)
           \/ StartMerge(c)
           \/ CreateShift(c)
           \/ Return(c)

SpecReuse == InitReuse /\ [][NextReuse]_vars

\* ------------------------------------------------------------------------
\* SpecShared: two generate_schedule runs with the same inputs whose steps
\* interleave, on one generator or on one generator each, and then a third
\* run with these inputs, alone on a generator of its own.  A run is
\* preempted before and after its day loop and between shift creations,
\* not between two days of the loop.
\* ------------------------------------------------------------------------

\* Sunday 09:00-21:00
SharedSlots == {Slot(e, 0, time(9, 0), time(21, 0), TRUE) : e \in SlotEmployeeIds}

InitShared ==
    \E e \in EmployeeLists, a \in SeqsUpTo(SharedSlots, MaxSlots), shared \in BOOLEAN :
        /\ FreshGens([g \in Gens |-> 100], [g \in Gens |-> 1])
        /\ self = (1 :> 1) @@ (2 :> IF shared THEN 1 ELSE 2) @@ (3 :> 3)
        /\ op = [c \in Calls |-> "none"]
        /\ pc = [c \in Calls |-> "idle"]
        /\ day = [c \in Calls |-> 0]
        /\ blocks = [c \in Calls |-> <<>>]
        /\ shifts = [c \in Calls |-> <<>>]
        /\ ret = [c \in Calls |-> <<>>]
        /\ uuid_count = 0
        /\ employees = [c \in Calls |-> e]
        /\ availability = [c \in Calls |-> a]
        /\ forecast_data = [c \in Calls |-> <<>>]
        /\ arg = [c \in Calls |-> NoArg]
        /\ employee_assignments = [c \in Calls |-> <<>>]
        /\ today = 3
        /\ db = EmptyDb

\* call c is between two iterations of the loop at line 381
InDayLoop(c) == pc[c] = "assign" /\ 0 < day[c] /\ day[c] < NumDays

NextShared ==
    \E c \in Calls :
        /\ c = 3 => (pc[1] = "done" /\ pc[2] = "done")
        /\ \A b \in Calls : b # c => ~InDayLoop(b)
        /\ \/ generate_schedule(c)
           \/ AssignDay(c)
           \/ StartMerge(c)
           \/ CreateShift(c)
           \/ Return(c)

SpecShared == InitShared /\ [][NextShared]_vars

\* ------------------------------------------------------------------------
\* SpecWindow: one call of pick_employees_greedy for day 1 over same-day
\* windows that end at a whole hour, windows of a single instant at a whole
\* hour and at a half hour, and an overnight window
\* ------------------------------------------------------------------------

WindowSlots ==
    {Slot(e, 1, time(9, 0), time(17, 0), TRUE) : e \in SlotEmployeeIds}
    \cup {Slot(e, 1, time(17, 0), time(17, 0), TRUE) : e \in SlotEmployeeIds}
    \cup {Slot(e, 1, time(9, 30), time(9, 30), TRUE) : e \in SlotEmployeeIds}
    \cup {Slot(e, 1, time(22, 0), time(6, 0), TRUE) : e \in SlotEmployeeIds}

InitWindow ==
    \E e \in EmployeeLists, a \in SeqsUpTo(WindowSlots, MaxSlots), h \in Hours,
       n \in 0 .. MaxRequired :
        /\ FreshGens([g \in Gens |-> 100], [g \in Gens |-> 1])
        /\ IdleFrames
        /\ employees = [c \in Calls |-> e]
        /\ availability = [c \in Calls |-> a]
        /\ forecast_data = [c \in Calls |-> <<>>]
        /\ arg = [c \in Calls |-> [hour |-> h, day |-> 1, required_count |-> n]]
        /\ employee_assignments = [c \in Calls |-> <<>>]
        /\ today = 3
        /\ db = EmptyDb

NextWindow == CallPickEmployeesGreedy(1)

SpecWindow == InitWindow /\ [][NextWindow]_vars

\* ------------------------------------------------------------------------
\* SpecCost: one generate_schedule run on a fresh generator, with hourly
\* rates that include 0 and budgets that include 0; employee 1 may be
\* available on Sunday and on Monday morning, employee 2 on Sunday afternoon
\* ------------------------------------------------------------------------

CostRateChoices == {0, 10, 20}

CostBudgetChoices == {0, 60, 100}

CostEmployeeLists ==
    UNION {{[i \in 1 .. k |-> [id |-> i, hourly_rate |-> r[i]]] :
               r \in [1 .. k -> CostRateChoices]} : k \in 0 .. MaxEmployees}

\* the slots kept, in the order of the list
CostAvailability ==
    LET all == <<Slot(1, 0, time(9, 0), time(11, 0), TRUE),
                 Slot(1, 1, time(9, 0), time(11, 0), TRUE),
                 Slot(2, 0, time(15, 0), time(17, 0), TRUE)>>
    IN  {SelectSeq(all, LAMBDA sl : sl \in keep) : keep \in SUBSET SeqToSet(all)}

InitCost ==
    \E b \in CostBudgetChoices, e \in CostEmployeeLists, a \in CostAvailability,
       t \in TodayChoices :
        /\ FreshGens([g \in Gens |-> b], [g \in Gens |-> 1])
        /\ IdleFrames
        /\ employees = [c \in Calls |-> e]
        /\ availability = [c \in Calls |-> a]
        /\ forecast_data = [c \in Calls |-> <<>>]
        /\ arg = [c \in Calls |-> NoArg]
        /\ employee_assignments = [c \in Calls |-> <<>>]
        /\ today = t
        /\ db = EmptyDb

NextCost ==
    \/ generate_schedule(1)
    \/ AssignDay(1)
    \/ StartMerge(1)
    \/ CreateShift(1)
    \/ Return(1)

SpecCost == InitCost /\ [][NextCost]_vars

\* ------------------------------------------------------------------------
\* SpecLoad: on a fresh generator, two calls of load_forecast for the same
\* week and then a call of demand_to_staff_with_forecast for date 10, one
\* after the other
\* ------------------------------------------------------------------------

\* what lines 97-99 give: an exception (the db object of src/api/db.py has
\* no cursor method, so db.cursor() raises AttributeError), no row, the rows
\* of ForecastRows, and a good row followed by a row without a demand
QueryResults ==
    {[error |-> "AttributeError", rows |-> <<>>],
     [error |-> "none", rows |-> <<>>],
     [error |-> "none", rows |-> ForecastRows],
     [error |-> "none", rows |-> <<Row(10, 3, 40, 95), Row(10, 9, NULL, 90)>>]}

InitLoad ==
    \E m \in MinStaffChoices, r1 \in QueryResults, r2 \in QueryResults, h \in Hours :
        /\ FreshGens([g \in Gens |-> 100], [g \in Gens |-> m])
        /\ self = [c \in Calls |-> 1]
        /\ op = [c \in Calls |-> "none"]
        /\ pc = [c \in Calls |-> "idle"]
        /\ day = [c \in Calls |-> 0]
        /\ blocks = [c \in Calls |-> <<>>]
        /\ shifts = [c \in Calls |-> <<>>]
        /\ ret = [c \in Calls |-> <<>>]
        /\ uuid_count = 0
        /\ employees = [c \in Calls |-> <<>>]
        /\ availability = [c \in Calls |-> <<>>]
        /\ forecast_data = [c \in Calls |-> <<>>]
        /\ arg = (1 :> [week |-> "2024-02", business_id |-> 1, result |-> r1])
                 @@ (2 :> [week |-> "2024-02", business_id |-> 1, result |-> r2])
                 @@ (3 :> [target_date |-> 10, hour |-> h, settings |-> <<>>])
        /\ employee_assignments = [c \in Calls |-> <<>>]
        /\ today = 3
        /\ db = EmptyDb

NextLoad ==
    \/ CallLoadForecast(1)
    \/ pc[1] = "done" /\ CallLoadForecast(2)
    \/ pc[2] = "done" /\ CallDemandToStaffWithForecast(3)

SpecLoad == InitLoad /\ [][NextLoad]_vars

\* ------------------------------------------------------------------------
\* SpecGap: one generate_schedule run over availability windows that leave
\* hours out: Sunday 09:00-21:00 and Sunday 16:00-13:00 (start > end, so
\* the hours 14 and 15 are outside the window)
\* ------------------------------------------------------------------------

GapSlots ==
    {Slot(e, 0, time(9, 0), time(21, 0), TRUE) : e \in SlotEmployeeIds}
    \cup {Slot(e, 0, time(16, 0), time(13, 0), TRUE) : e \in SlotEmployeeIds}

InitGap ==
    \E m \in MinStaffChoices, e \in EmployeeLists, a \in SeqsUpTo(GapSlots, MaxSlots),
       f \in ForecastChoices :
        /\ FreshGens([g \in Gens |-> 100], [g \in Gens |-> m])
        /\ IdleFrames
        /\ employees = [c \in Calls |-> e]
        /\ availability = [c \in Calls |-> a]
        /\ forecast_data = [c \in Calls |-> f]
        /\ arg = [c \in Calls |-> NoArg]
        /\ employee_assignments = [c \in Calls |-> <<>>]
        /\ today = 3
        /\ db = EmptyDb

NextGap ==
    \/ generate_schedule(1)
    \/ AssignDay(1)
    \/ StartMerge(1)
    \/ CreateShift(1)
    \/ Return(1)

SpecGap == InitGap /\ [][NextGap]_vars

\* ------------------------------------------------------------------------
\* The route POST /schedule/{week}/generate (src/api/routes/schedule.py).
\* A string is a sequence of one-character strings.  Call 1 is the route
\* handler, call 2 the generate_schedule run it invokes on the generator it
\* constructs (generator self[2]).  A raised exception is a record; the response
\* of the route is ret[1], whose status_code is that of the HTTPException
\* that leaves the handler, or 200.
\* ------------------------------------------------------------------------

Digits == <<"0", "1", "2", "3", "4", "5", "6", "7", "8", "9">>

IsDigitAt(s, i) == i <= Len(s) /\ \E n \in 1 .. 10 : Digits[n] = s[i]

\* int() of one digit
DigitVal(ch) == (CHOOSE n \in 1 .. 10 : Digits[n] = ch) - 1

\* re.match(r'(\d{4})-W(\d{1,2})', week_str): the pattern at the start of
\* the string; what follows the match is not looked at
WeekMatch(s) ==
    /\ Len(s) >= 7
    /\ \A i \in 1 .. 4 : IsDigitAt(s, i)
    /\ s[5] = "-"
    /\ s[6] = "W"
    /\ IsDigitAt(s, 7)

NoException == [class |-> "none"]

HTTPException(code) == [class |-> "HTTPException", status_code |-> code]

ValueError == [class |-> "ValueError"]

\* date(year, 1, 1) as a day ordinal whose weekday is ordinal % 7
Jan1(year) ==
    365 * (year - 1) + ((year - 1) \div 4) - ((year - 1) \div 100) + ((year - 1) \div 400)

\* lines 45-58; date(0, 1, 1) raises ValueError
parse_week_string(week_str) ==
    IF ~WeekMatch(week_str)
    THEN [raised |-> HTTPException(400)]
    ELSE LET year == 1000 * DigitVal(week_str[1]) + 100 * DigitVal(week_str[2])
                     + 10 * DigitVal(week_str[3]) + DigitVal(week_str[4])
             week == IF IsDigitAt(week_str, 8)
                     THEN 10 * DigitVal(week_str[7]) + DigitVal(week_str[8])
                     ELSE DigitVal(week_str[7])
             week_1_monday == Jan1(year) - (Jan1(year) % 7)
         IN  IF year = 0
             THEN [raised |-> ValueError]
             ELSE [raised |-> NoException,
                   value  |-> week_1_monday + 7 * (week - 1)]


\* lines 60-80: the rows of the business with an hourly rate, by rate
get_employees_data(table, business_id) ==
    LET rows == SelectSeq(table, LAMBDA r : r.business_id = business_id
                                            /\ r.hourly_rate # NULL)
    IN  SortByRate([i \in 1 .. Len(rows) |->
                       [id |-> rows[i].id, hourly_rate |-> rows[i].hourly_rate]])

\* lines 82-108: the rows of the business with is_available = true; the
\* tables of AvailabilityTables are in the order of the ORDER BY clause
get_availability_data(table, business_id) ==
    LET rows == SelectSeq(table, LAMBDA r : r.business_id = business_id /\ r.is_available)
    IN  [i \in 1 .. Len(rows) |->
            Slot(rows[i].employee_id, rows[i].day_of_week, rows[i].start_time,
                 rows[i].end_time, rows[i].is_available)]

\* what is raised at lines 168-178, NoException when line 181 is reached
RaisedBeforeGenerator(week_str, emps, avail) ==
    IF parse_week_string(week_str).raised # NoException
    THEN parse_week_string(week_str).raised
    ELSE IF emps = <<>> THEN HTTPException(400)
    ELSE IF avail = <<>> THEN HTTPException(400)
    ELSE NoException

\* lines 240-241: `except Exception` catches whatever the try block raised,
\* the HTTPException of lines 49, 175 and 178 included, and raises
\* HTTPException(500)
ExceptHandler(raised) == HTTPException(500)

\* lines 166-191: the request up to the call of generate_schedule, or to the
\* exception that ends it
route_generate_schedule(c) ==
    /\ c = 1
    /\ pc[c] = "idle"
    /\ op' = [op EXCEPT ![c] = "route_generate_schedule"]
    /\ \E emps \in {get_employees_data(db.employees, arg[c].business_id)},
          avail \in {get_availability_data(db.availability, arg[c].business_id)} :
          \E raised \in {RaisedBeforeGenerator(arg[c].week, emps, avail)} :
             IF raised # NoException
             THEN /\ ret' = [ret EXCEPT ![c] =
                        [status_code |-> ExceptHandler(raised).status_code]]
                  /\ pc' = [pc EXCEPT ![c] = "done"]
                  /\ UNCHANGED <<genVars, employees, availability, forecast_data>>
             ELSE /\ weekly_budget' = [weekly_budget EXCEPT ![self[c + 1]] =
                        arg[c].weekly_budget]
                  /\ min_staff_per_hour' = [min_staff_per_hour EXCEPT ![self[c + 1]] =
                        arg[c].min_staff_per_hour]
                  /\ current_cost' = [current_cost EXCEPT ![self[c + 1]] = 0]
                  /\ alerts' = [alerts EXCEPT ![self[c + 1]] = <<>>]
                  /\ forecast_cache' = [forecast_cache EXCEPT ![self[c + 1]] = <<>>]
                  /\ employees' = [employees EXCEPT ![c] = emps, ![c + 1] = emps]
                  /\ availability' = [availability EXCEPT ![c] = avail, ![c + 1] = avail]
                  /\ forecast_data' = [forecast_data EXCEPT ![c + 1] = forecast_data[c]]
                  /\ pc' = [pc EXCEPT ![c] = "generating"]
                  /\ ret' = ret
    /\ UNCHANGED <<arg, self, day, employee_assignments, blocks, shifts, today,
                   uuid_count, db>>

\* line 116: len(range(start.hour, end.hour)) of every shift
RECURSIVE ScheduleTotalHours(_)
ScheduleTotalHours(ss) ==
    IF ss = <<>> THEN 0
    ELSE Max(0, (Head(ss).end_time \div MinutesPerHour)
                - (Head(ss).start_time \div MinutesPerHour))
         + ScheduleTotalHours(Tail(ss))

\* the row of lines 127-131
ScheduleRow(schedule_id, business_id, week_start, ss, total_cost) ==
    [id |-> schedule_id, business_id |-> business_id, week_start_date |-> week_start,
     status |-> "draft", total_hours |-> ScheduleTotalHours(ss),
     total_cost |-> total_cost]

\* the row of lines 140-145
ShiftRow(shift, business_id, schedule_id) ==
    [id |-> shift.id, business_id |-> business_id, schedule_id |-> schedule_id,
     employee_id |-> shift.employee_id, date |-> shift.date,
     start_time |-> shift.start_time, end_time |-> shift.end_time,
     break_minutes |-> shift.break_minutes, hourly_rate |-> shift.hourly_rate,
     status |-> "scheduled"]

\* lines 194-238: save_schedule_to_db and the response; budget_utilization
\* is the quotient num / den in percent
save_schedule_to_db(c) ==
    /\ c = 1
    /\ pc[c] = "generating"
    /\ op[c + 1] = "generate_schedule"
    /\ pc[c + 1] = "done"
    /\ LET schedule_id == uuid_count + 1
           week_start == parse_week_string(arg[c].week).value
           total_cost == current_cost[self[c + 1]]
           ss == ret[c + 1].shifts
       IN  /\ db' = [db EXCEPT
                 !.schedules = Append(@, ScheduleRow(schedule_id, arg[c].business_id,
                                                     week_start, ss, total_cost)),
                 !.shifts = @ \o [i \in 1 .. Len(ss) |->
                                     ShiftRow(ss[i], arg[c].business_id, schedule_id)]]
           /\ ret' = [ret EXCEPT ![c] =
                 [status_code |-> 200,
                  schedule_id |-> schedule_id,
                  week_start |-> week_start,
                  total_cost |-> total_cost,
                  budget_utilization |->
                      IF arg[c].weekly_budget > 0
                      THEN [num |-> total_cost * 100, den |-> Money(arg[c].weekly_budget)]
                      ELSE [num |-> 0, den |-> 1],
                  shifts |-> ss,
                  alerts |-> ret[c + 1].alerts,
                  status |-> "draft"]]
    /\ uuid_count' = uuid_count + 1
    /\ pc' = [pc EXCEPT ![c] = "done"]
    /\ UNCHANGED <<genVars, inputVars, self, op, day, employee_assignments, blocks,
                   shifts, today>>

\* ------------------------------------------------------------------------
\* SpecRoute: one request to POST /schedule/{week}/generate
\* ------------------------------------------------------------------------

\* "2025-W43", "2025-W4", "2025-W43x", "2025W43", "25-W43", "" and "0000-W01"
WeekStrings ==
    {<<"2", "0", "2", "5", "-", "W", "4", "3">>,
     <<"2", "0", "2", "5", "-", "W", "4">>,
     <<"2", "0", "2", "5", "-", "W", "4", "3", "x">>,
     <<"2", "0", "2", "5", "W", "4", "3">>,
     <<"2", "5", "-", "W", "4", "3">>,
     <<>>,
     <<"0", "0", "0", "0", "-", "W", "0", "1">>}

EmployeeRow(b, i, r) == [business_id |-> b, id |-> i, hourly_rate |-> r]

\* the employees table: empty; business 1 without a rate; business 1 with
\* rates 20 and 10 and business 2 with rate 10; only business 2 with a rate
EmployeeTables ==
    {<<>>,
     <<EmployeeRow(1, 1, NULL)>>,
     <<EmployeeRow(1, 1, 20), EmployeeRow(1, 2, 10), EmployeeRow(2, 3, 10)>>,
     <<EmployeeRow(1, 1, NULL), EmployeeRow(2, 3, 10)>>}

AvailabilityRow(b, e, d, s, t, a) ==
    [business_id |-> b, employee_id |-> e, day_of_week |-> d, start_time |-> s,
     end_time |-> t, is_available |-> a]

\* the availability table: empty; business 1 with unavailable rows only;
\* business 1 available on Sunday and overnight on Saturday; business 2 only
AvailabilityTables ==
    {<<>>,
     <<AvailabilityRow(1, 1, 0, time(9, 0), time(21, 0), FALSE)>>,
     <<AvailabilityRow(1, 1, 0, time(9, 0), time(21, 0), TRUE),
       AvailabilityRow(1, 2, 0, time(9, 0), time(21, 0), TRUE),
       AvailabilityRow(1, 2, 6, time(21, 0), time(8, 0), TRUE)>>,
     <<AvailabilityRow(2, 3, 0, time(9, 0), time(21, 0), TRUE)>>}

\* ScheduleRequest.weekly_budget, any float
RequestBudgets == {0, 100, 400}

\* date.today() when the request is served: a Thursday and a Sunday
RequestDays == {3, 6}

\* ScheduleRequest.forecast_data is left at its default None
InitRoute ==
    \E w \in WeekStrings, et \in EmployeeTables, at \in AvailabilityTables,
       b \in RequestBudgets, m \in MinStaffChoices, t \in RequestDays :
        /\ FreshGens([g \in Gens |-> 0], [g \in Gens |-> 1])
        /\ IdleFrames
        /\ employees = [c \in Calls |-> <<>>]
        /\ availability = [c \in Calls |-> <<>>]
        /\ forecast_data = [c \in Calls |-> <<>>]
        /\ arg = [c \in Calls |->
                     IF c = 1
                     THEN [week |-> w, business_id |-> 1, weekly_budget |-> b,
                           min_staff_per_hour |-> m]
                     ELSE NoArg]
        /\ employee_assignments = [c \in Calls |-> <<>>]
        /\ today = t
        /\ db = [employees |-> et, availability |-> at, schedules |-> <<>>,
                 shifts |-> <<>>]

NextRoute ==
    \/ route_generate_schedule(1)
    \/ /\ pc[1] = "generating"
       /\ \/ generate_schedule(2)
          \/ AssignDay(2)
          \/ StartMerge(2)
          \/ CreateShift(2)
          \/ Return(2)
    \/ save_schedule_to_db(1)

SpecRoute == InitRoute /\ [][NextRoute]_vars

\* ------------------------------------------------------------------------
\* Properties
\* ------------------------------------------------------------------------

RECURSIVE SumCost(_)
SumCost(ss) ==
    IF ss = <<>> THEN 0
    ELSE SumCost(SubSeq(ss, 1, Len(ss) - 1)) + ss[Len(ss)].total_cost

\* current_cost before shift i of ss was created
CostBefore(ss, i) == SumCost(SubSeq(ss, 1, i - 1))

AlertsOfType(as, t) == SelectSeq(as, LAMBDA a : a.type = t)

AlertsNotOfType(as, t) == SelectSeq(as, LAMBDA a : a.type # t)

\* the k-th smallest element of a set of integers
Nth(S, k) == CHOOSE x \in S : Cardinality({y \in S : y < x}) = k - 1

WithoutId(sh) ==
    [employee_id |-> sh.employee_id, date |-> sh.date, start_time |-> sh.start_time,
     end_time |-> sh.end_time, break_minutes |-> sh.break_minutes,
     hourly_rate |-> sh.hourly_rate, total_cost |-> sh.total_cost]

WithoutIds(ss) == [i \in 1 .. Len(ss) |-> WithoutId(ss[i])]

\* C1: within one generate_schedule run the budget_exceeded (critical) alerts
\* are, in order, exactly one per shift whose cost added to the sum of the
\* costs of the shifts created before it is strictly greater than
\* weekly_budget, and each carries that sum, the shift's cost and the
\* budget; a shift that brings the total exactly to weekly_budget has none.
C1_BudgetAlertIffOver ==
    \A c \in Calls :
        op[c] = "generate_schedule" =>
            LET g == self[c]
                ss == shifts[c]
                over == {i \in 1 .. Len(ss) :
                            CostBefore(ss, i) + ss[i].total_cost > weekly_budget[g] * 60}
                found == AlertsOfType(alerts[g], "budget_exceeded")
            IN  /\ Len(found) = Cardinality(over)
                /\ \A k \in 1 .. Len(found) :
                      LET i == Nth(over, k)
                      IN  /\ found[k].severity = "critical"
                          /\ found[k].details =
                                [current_cost |-> CostBefore(ss, i),
                                 shift_cost   |-> ss[i].total_cost,
                                 budget       |-> weekly_budget[g] * 60]

\* budget 100, two shifts of cost 60 and 60: one alert, raised by the second
C1_Witness ==
    /\ op[1] = "generate_schedule"
    /\ weekly_budget[1] = 100
    /\ Len(shifts[1]) = 2
    /\ shifts[1][1].total_cost = 60 * 60
    /\ shifts[1][2].total_cost = 60 * 60
    /\ Len(AlertsOfType(alerts[1], "budget_exceeded")) = 1
    /\ AlertsOfType(alerts[1], "budget_exceeded")[1].details.current_cost = 60 * 60

\* C2: the budget is advisory.  Two generators that differ in weekly_budget
\* only, run on the same employees, availability and forecast_data, return
\* the same shifts (ids aside), one per merged hour block, and end with the
\* same current_cost; their alerts other than budget_exceeded are the same.
C2_BudgetAdvisory ==
    (pc[1] = "done" /\ pc[2] = "done") =>
        /\ WithoutIds(ret[1].shifts) = WithoutIds(ret[2].shifts)
        /\ current_cost[1] = current_cost[2]
        /\ AlertsNotOfType(ret[1].alerts, "budget_exceeded")
              = AlertsNotOfType(ret[2].alerts, "budget_exceeded")
        /\ \A c \in {1, 2} :
              Len(ret[c].shifts) = Len(MergeBlocks(employee_assignments[c], employees[c]))

\* both runs are over, shifts were created, and the alerts differ
C2_Witness ==
    /\ pc[1] = "done"
    /\ pc[2] = "done"
    /\ Len(ret[1].shifts) >= 2
    /\ AlertsOfType(ret[1].alerts, "budget_exceeded") # <<>>
    /\ AlertsOfType(ret[2].alerts, "budget_exceeded") = <<>>

\* C3: current_cost is the sum of total_cost over the shifts created so far,
\* after every shift creation of the merge phase, and over the returned
\* shift list when generate_schedule returns (0 when there is none).
C3_CostIsSumOfShifts ==
    \A c \in Calls :
        op[c] = "generate_schedule" =>
            /\ current_cost[self[c]] = SumCost(shifts[c])
            /\ pc[c] = "done" =>
                  /\ ret[c].shifts = shifts[c]
                  /\ current_cost[self[c]] = SumCost(ret[c].shifts)

\* a finished run of three shifts whose cost is above the budget
C3_Witness ==
    /\ pc[1] = "done"
    /\ op[1] = "generate_schedule"
    /\ Len(ret[1].shifts) = 3
    /\ current_cost[1] > weekly_budget[1] * 60
    /\ current_cost[1] = ret[1].shifts[1].total_cost + ret[1].shifts[2].total_cost
                            + ret[1].shifts[3].total_cost

\* eligibility as section 4.2 of the specification words it: the first slot
\* in availability order on the employee, the day and available = true is
\* the one considered, and the target hour at minute 0 lies in its window
Eligible(emp, slots, d, h) ==
    \E i \in 1 .. Len(slots) :
        /\ slots[i].employee_id = emp.id
        /\ slots[i].day_of_week = d
        /\ slots[i].is_available
        /\ \A j \in 1 .. (i - 1) :
              ~(/\ slots[j].employee_id = emp.id
                /\ slots[j].day_of_week = d
                /\ slots[j].is_available)
        /\ IF slots[i].start_time <= slots[i].end_time
           THEN slots[i].start_time <= h * 60 /\ h * 60 <= slots[i].end_time
           ELSE h * 60 >= slots[i].start_time \/ h * 60 <= slots[i].end_time

\* positions in the employee list of call c of the eligible employees
EligibleIdx(c) ==
    {i \in 1 .. Len(employees[c]) :
        Eligible(employees[c][i], availability[c], arg[c].day, arg[c].hour)}

PickDone(c) == op[c] = "pick_employees_greedy" /\ pc[c] = "done"

IsSelected(c, emp) == \E k \in 1 .. Len(ret[c].selected) : ret[c].selected[k] = emp

\* C4: pick_employees_greedy returns exactly min(required_count, E)
\* employees, E the number of eligible ones; they are eligible employees of
\* the input, each returned once, in ascending hourly_rate order; no eligible
\* employee left out has a strictly lower rate than a returned one; of two
\* eligible employees with rates 10 and 20 and required 1 only the rate-10
\* employee is returned.
C4_PickCheapestEligible ==
    \A c \in Calls :
        PickDone(c) =>
            LET sel == ret[c].selected
                emps == employees[c]
                E == EligibleIdx(c)
            IN  /\ Len(sel) = Min(arg[c].required_count, Cardinality(E))
                /\ \A k \in 1 .. (Len(sel) - 1) :
                      sel[k].hourly_rate <= sel[k + 1].hourly_rate
                /\ \A k \in 1 .. Len(sel) : \E i \in E : sel[k] = emps[i]
                /\ \A k, l \in 1 .. Len(sel) : k # l => sel[k].id # sel[l].id
                /\ \A i \in E :
                      ~IsSelected(c, emps[i]) =>
                          \A k \in 1 .. Len(sel) :
                              ~(emps[i].hourly_rate < sel[k].hourly_rate)
                /\ (/\ Cardinality(E) = 2
                    /\ {emps[i].hourly_rate : i \in E} = {10, 20}
                    /\ arg[c].required_count = 1)
                      => (Len(sel) = 1 /\ sel[1].hourly_rate = 10)

\* the rate-20 employee stands first in the input, both are eligible, one is
\* required: the rate-10 employee alone is returned
C4_Witness ==
    /\ PickDone(1)
    /\ employees[1] = <<[id |-> 1, hourly_rate |-> 20], [id |-> 2, hourly_rate |-> 10]>>
    /\ EligibleIdx(1) = {1, 2}
    /\ arg[1].required_count = 1
    /\ ret[1].selected = <<[id |-> 2, hourly_rate |-> 10]>>

\* C5: a call of pick_employees_greedy on a generator without alerts leaves
\* exactly one alert, of type insufficient_staff and severity warning, with
\* details day = target_day, hour = target_hour, available = the number of
\* eligible employees and required = required_count, when the eligible
\* employees are strictly fewer than required_count, and no alert otherwise.
C5_InsufficientStaffIffShort ==
    \A c \in Calls :
        PickDone(c) =>
            LET E == EligibleIdx(c)
            IN  alerts[self[c]] =
                    IF Cardinality(E) < arg[c].required_count
                    THEN <<[type     |-> "insufficient_staff",
                            severity |-> "warning",
                            details  |-> [day       |-> arg[c].day,
                                          hour      |-> arg[c].hour,
                                          available |-> Cardinality(E),
                                          required  |-> arg[c].required_count]]>>
                    ELSE <<>>

\* one eligible employee of two, two required: one alert, available = 1
C5_Witness ==
    /\ PickDone(1)
    /\ Len(employees[1]) = 2
    /\ Cardinality(EligibleIdx(1)) = 1
    /\ arg[1].required_count = 2
    /\ Len(alerts[1]) = 1
    /\ alerts[1][1].details.available = 1
    /\ alerts[1][1].details.required = 2

\* positions of the available slots of emp on day d
SlotsOnDay(slots, emp, d) ==
    {i \in 1 .. Len(slots) :
        slots[i].employee_id = emp.id /\ slots[i].day_of_week = d /\ slots[i].is_available}

\* C6: when at least as many employees are required as are listed (the
\* returned employees are then the eligible ones), an employee whose slot
\* considered for the target day d (the first available one on d) has
\* start_time > end_time is returned exactly for the hours h of d with
\* h:00 >= start_time or h:00 <= end_time, and an employee all of whose
\* slots are on other days is not returned, overnight slots of the day
\* before included.
C6_OvernightSameDay ==
    \A c \in Calls :
        (PickDone(c) /\ arg[c].required_count >= Len(employees[c])) =>
            \A i \in 1 .. Len(employees[c]) :
                LET emp == employees[c][i]
                    slots == availability[c]
                    onDay == SlotsOnDay(slots, emp, arg[c].day)
                    first == CHOOSE x \in onDay : \A y \in onDay : x <= y
                IN  /\ onDay = {} => ~IsSelected(c, emp)
                    /\ (onDay # {} /\ slots[first].start_time > slots[first].end_time) =>
                          (IsSelected(c, emp) <=>
                              \/ arg[c].hour * 60 >= slots[first].start_time
                              \/ arg[c].hour * 60 <= slots[first].end_time)

\* slot day 1, 22:00-06:00, target hour 2 of day 1: the employee is returned
C6_Witness ==
    /\ PickDone(1)
    /\ employees[1] = <<[id |-> 1, hourly_rate |-> 10]>>
    /\ availability[1] = <<Slot(1, 1, time(22, 0), time(6, 0), TRUE)>>
    /\ arg[1] = [hour |-> 2, day |-> 1, required_count |-> 1]
    /\ ret[1].selected = employees[1]

\* merge_hours_to_shifts has computed the blocks of call c and has created
\* no shift yet
MergeStarted(c) ==
    op[c] = "merge_hours_to_shifts" /\ pc[c] = "merge" /\ shifts[c] = <<>>

\* the hours assigned to the employee whose hours call c merges
AssignedHours(c) ==
    {employee_assignments[c][1].hours[i][2] :
        i \in 1 .. Len(employee_assignments[c][1].hours)}

\* the hour lists of the blocks of call c, in order
BlockHours(c) == [k \in 1 .. Len(blocks[c]) |-> blocks[c][k].hours]

\* a and n are assigned hours with no assigned hour between them
NextAssigned(H, a, n) == a \in H /\ n \in H /\ a < n /\ \A x \in H : ~(a < x /\ x < n)

SameBlock(bs, a, n) == \E k \in 1 .. Len(bs) : a \in SeqToSet(bs[k]) /\ n \in SeqToSet(bs[k])

\* C7: for the hours of one employee on one day, given in any order, every
\* block is a run of consecutive hours that starts and ends at an assigned
\* hour, the blocks come in ascending order, every assigned hour lies in
\* exactly one block, and an assigned hour n that follows the assigned hour
\* a is in the block of a (with every hour between them) if and only if
\* n <= a + 4; hours 9, 10, 14 give the one block 9 .. 14 and hours 9, 10, 16
\* give the blocks [9, 10] and [16].
C7_GapTolerantMerge ==
    \A c \in Calls :
        (MergeStarted(c) /\ employees[c] # <<>>) =>
            LET H == AssignedHours(c)
                bs == BlockHours(c)
            IN  /\ \A k \in 1 .. Len(bs) :
                      /\ bs[k] # <<>>
                      /\ \A i \in 1 .. Len(bs[k]) : bs[k][i] = bs[k][1] + i - 1
                      /\ bs[k][1] \in H
                      /\ bs[k][Len(bs[k])] \in H
                /\ \A k \in 1 .. (Len(bs) - 1) : bs[k][Len(bs[k])] < bs[k + 1][1]
                /\ \A h \in H : Cardinality({k \in 1 .. Len(bs) : h \in SeqToSet(bs[k])}) = 1
                /\ \A a, n \in H :
                      NextAssigned(H, a, n) => (SameBlock(bs, a, n) <=> n <= a + 4)
                /\ H = {9, 10, 14} => bs = <<<<9, 10, 11, 12, 13, 14>>>>
                /\ H = {9, 10, 16} => bs = <<<<9, 10>>, <<16>>>>

\* hours 14, 10, 9 handed over in descending order: one block 9 .. 14
C7_Witness ==
    /\ MergeStarted(1)
    /\ employees[1] # <<>>
    /\ employee_assignments[1][1].hours = <<<<3, 14>>, <<3, 10>>, <<3, 9>>>>
    /\ BlockHours(1) = <<<<9, 10, 11, 12, 13, 14>>>>

\* C8: the merge closes a block whenever the next assigned hour is not the
\* previous assigned hour + 1 and adds no unassigned hour to a block (hours
\* 9, 10, 12 give the blocks [9, 10] and [12]).
C8_StrictContiguity ==
    \A c \in Calls :
        (MergeStarted(c) /\ employees[c] # <<>>) =>
            LET H == AssignedHours(c)
                bs == BlockHours(c)
            IN  /\ \A k \in 1 .. Len(bs) : SeqToSet(bs[k]) \subseteq H
                /\ \A a, n \in H :
                      NextAssigned(H, a, n) => (SameBlock(bs, a, n) <=> n = a + 1)
                /\ H = {9, 10, 12} => bs = <<<<9, 10>>, <<12>>>>

\* the blocks for which call c has created or will create its shifts
AllBlocks(c) == MergeBlocks(employee_assignments[c], employees[c])

\* C9: the k-th shift of a merge, created for the k-th block, of n hours, by
\* an employee with rate r, has hourly_rate = r, break_minutes =
\* max(0, (n - 4) * 15) and total_cost = ((n * 60 - break_minutes) / 60) * r
\* (in sixtieths: (n * 60 - break_minutes) * r); the worked minutes
\* n * 60 - break_minutes are strictly positive; an 8-hour block at rate 50
\* has break_minutes 60 and total_cost 350.
C9_BreakAndCost ==
    \A c \in Calls :
        op[c] = "merge_hours_to_shifts" =>
            \A k \in 1 .. Len(shifts[c]) :
                LET sh == shifts[c][k]
                    n == Len(AllBlocks(c)[k].hours)
                    r == employees[c][1].hourly_rate
                    brk == IF n > 4 THEN (n - 4) * 15 ELSE 0
                IN  /\ n \in 1 .. 24
                    /\ sh.hourly_rate = r
                    /\ sh.break_minutes = brk
                    /\ sh.total_cost = (n * 60 - brk) * r
                    /\ n * 60 - sh.break_minutes > 0
                    /\ (n = 8 /\ r = 50) =>
                          (sh.break_minutes = 60 /\ sh.total_cost = 350 * 60)

\* hours 9 .. 16 at rate 50: break 60, cost 350
C9_Witness ==
    /\ op[1] = "merge_hours_to_shifts"
    /\ pc[1] = "done"
    /\ employees[1] = <<[id |-> 1, hourly_rate |-> 50]>>
    /\ AssignedHours(1) = 9 .. 16
    /\ Len(ret[1].shifts) = 1
    /\ ret[1].shifts[1].break_minutes = 60
    /\ ret[1].shifts[1].total_cost = 350 * 60

\* C10: without forecast data demand_to_staff returns max(2,
\* min_staff_per_hour) for the hours 12, 13, 14, 18, 19, 20, 21, max(1,
\* min_staff_per_hour) for the other hours of 6 .. 23 and 0 for the hours
\* 0 .. 5, whatever min_staff_per_hour and the day are.
C10_HeuristicDemand ==
    \A c \in Calls :
        (op[c] = "demand_to_staff" /\ pc[c] = "done" /\ forecast_data[c] = <<>>) =>
            LET m == min_staff_per_hour[self[c]]
                h == arg[c].hour
            IN  ret[c].staff =
                    IF h \in {12, 13, 14, 18, 19, 20, 21} THEN (IF m > 2 THEN m ELSE 2)
                    ELSE IF h \in 6 .. 23 THEN (IF m > 1 THEN m ELSE 1)
                    ELSE 0

\* hour 21 of a Friday, min_staff_per_hour 1, no forecast: 2
C10_Witness ==
    /\ op[1] = "demand_to_staff"
    /\ pc[1] = "done"
    /\ forecast_data[1] = <<>>
    /\ min_staff_per_hour[1] = 1
    /\ arg[1].hour = 21
    /\ arg[1].day = 5
    /\ ret[1].staff = 2

DemandDone(c) == op[c] = "demand_to_staff" /\ pc[c] = "done"

\* the heuristic value of section 4.1 for hour h and min_staff_per_hour m
HeuristicValue(m, h) ==
    IF h \in {12, 13, 14, 18, 19, 20, 21} THEN (IF m > 2 THEN m ELSE 2)
    ELSE IF h \in 6 .. 23 THEN (IF m > 1 THEN m ELSE 1)
    ELSE 0

\* C11: when forecast_data has the key of (day, hour), demand_to_staff
\* returns the value divided by 10, truncated, and at least 1, whatever
\* min_staff_per_hour is and also for the hours 0 .. 5; when the key is
\* absent or forecast_data is empty it returns the heuristic value.
C11_ForecastMapDemand ==
    \A c \in Calls :
        DemandDone(c) =>
            LET fd == forecast_data[c]
                key == <<arg[c].day, arg[c].hour>>
                q == IF key \in DOMAIN fd THEN fd[key] \div 10 ELSE 0
            IN  ret[c].staff =
                    IF key \in DOMAIN fd
                    THEN (IF q > 1 THEN q ELSE 1)
                    ELSE HeuristicValue(min_staff_per_hour[self[c]], arg[c].hour)

\* Saturday 03:00 with forecast value 30 and min_staff_per_hour 0: 3 staff
\* for an hour the heuristic treats as closed
C11_Witness ==
    /\ DemandDone(1)
    /\ arg[1].day = 6
    /\ arg[1].hour = 3
    /\ <<6, 3>> \in DOMAIN forecast_data[1]
    /\ forecast_data[1][<<6, 3>>] = 30
    /\ min_staff_per_hour[1] = 0
    /\ ret[1].staff = 3

ForecastDone(c) == op[c] = "demand_to_staff_with_forecast" /\ pc[c] = "done"

\* the cached week consulted for the date of call c: the first one, in
\* insertion order, that holds the date
ConsultedWeek(c) ==
    LET cache == forecast_cache[self[c]]
    IN  CHOOSE i \in 1 .. Len(cache) :
            /\ arg[c].target_date \in {k[1] : k \in DOMAIN cache[i].data}
            /\ \A j \in 1 .. (i - 1) :
                  arg[c].target_date \notin {k[1] : k \in DOMAIN cache[j].data}

\* a forecast is loaded for the (target_date, hour) of call c
HasForecast(c) ==
    LET cache == forecast_cache[self[c]]
    IN  /\ \E i \in 1 .. Len(cache) :
              arg[c].target_date \in {k[1] : k \in DOMAIN cache[i].data}
        /\ <<arg[c].target_date, arg[c].hour>> \in DOMAIN cache[ConsultedWeek(c)].data

SlotForecast(c) ==
    forecast_cache[self[c]][ConsultedWeek(c)].data[<<arg[c].target_date, arg[c].hour>>]

\* the settings in force for call c: the argument over the defaults
SettingOf(c, key) ==
    IF key \in DOMAIN arg[c].settings THEN arg[c].settings[key]
    ELSE CASE key = "demand_per_staff" -> 15
           [] key = "min_staff_per_hour" -> 1
           [] key = "max_staff_per_hour" -> 5
           [] key = "confidence_threshold" -> 70

\* round(a / b) for a >= 0 and b > 0: to the nearest integer, a half to the
\* even one
RoundDiv(a, b) ==
    LET q == a \div b
        r == a % b
    IN  IF 2 * r > b \/ (2 * r = b /\ q % 2 = 1) THEN q + 1 ELSE q

Clamp(x, lo, hi) == IF x < lo THEN lo ELSE IF x > hi THEN hi ELSE x

LowConfidenceAlertsOf(as, d, h) ==
    SelectSeq(as, LAMBDA a : /\ a.type = "low_confidence_forecast"
                             /\ a.details.date = d
                             /\ a.details.hour = h)

\* C12: when the loaded forecast for (target_date, hour) has confidence >=
\* confidence_threshold, demand_to_staff_with_forecast returns
\* clamp(round(demand / demand_per_staff), min_staff_per_hour,
\* max_staff_per_hour) and appends no alert for the slot.
C12_RoundedClamp ==
    \A c \in Calls :
        (/\ ForecastDone(c)
         /\ HasForecast(c)
         /\ SlotForecast(c).confidence >= SettingOf(c, "confidence_threshold")) =>
            /\ ret[c].staff =
                  Clamp(RoundDiv(SlotForecast(c).demand, SettingOf(c, "demand_per_staff")),
                        SettingOf(c, "min_staff_per_hour"),
                        SettingOf(c, "max_staff_per_hour"))
            /\ LowConfidenceAlertsOf(alerts[self[c]], arg[c].target_date, arg[c].hour) = <<>>

\* the calls that are over and whose slot has a forecast below the threshold
LowConfidenceCalls ==
    {c \in Calls :
        /\ ForecastDone(c)
        /\ HasForecast(c)
        /\ SlotForecast(c).confidence < SettingOf(c, "confidence_threshold")}

\* C13: a call whose slot has a loaded forecast with confidence strictly
\* below confidence_threshold returns the heuristic value of its hour, and
\* the alerts of the generator are exactly one low_confidence_forecast
\* warning per such call, with the date, hour and confidence of the slot; a
\* call for another hour of the date whose confidence meets the threshold
\* leaves no alert for its slot and returns the value of its own forecast
\* (the quotient demand / demand_per_staff, truncated or rounded up, limited
\* to [min_staff_per_hour, max_staff_per_hour]), whatever the other call did.
C13_LowConfidenceFallback ==
    /\ \A c \in LowConfidenceCalls :
          /\ ret[c].staff = HeuristicValue(min_staff_per_hour[self[c]], arg[c].hour)
          /\ \E k \in 1 .. Len(alerts[self[c]]) :
                alerts[self[c]][k] =
                    [type     |-> "low_confidence_forecast",
                     severity |-> "warning",
                     details  |-> [date |-> arg[c].target_date, hour |-> arg[c].hour,
                                   confidence |-> SlotForecast(c).confidence]]
    /\ \A g \in Gens :
          Len(alerts[g]) = Cardinality({c \in LowConfidenceCalls : self[c] = g})
    /\ \A c \in Calls :
          (/\ ForecastDone(c)
           /\ HasForecast(c)
           /\ SlotForecast(c).confidence >= SettingOf(c, "confidence_threshold")) =>
              LET q == SlotForecast(c).demand \div SettingOf(c, "demand_per_staff")
                  lo == SettingOf(c, "min_staff_per_hour")
                  hi == SettingOf(c, "max_staff_per_hour")
              IN  /\ ret[c].staff \in {Clamp(q, lo, hi), Clamp(q + 1, lo, hi)}
                  /\ LowConfidenceAlertsOf(alerts[self[c]], arg[c].target_date,
                                           arg[c].hour) = <<>>

\* 11:00 has confidence 0.5 and falls back to the heuristic value 1 with one
\* alert; 10:00 of the same date has confidence 0.9 and gives 5
C13_Witness ==
    /\ ForecastDone(1)
    /\ ForecastDone(2)
    /\ arg[1].hour = 11
    /\ arg[2].hour = 10
    /\ arg[1].settings = <<>>
    /\ min_staff_per_hour[1] = 1
    /\ HasForecast(1)
    /\ HasForecast(2)
    /\ SlotForecast(1).confidence = 50
    /\ ret[1].staff = 1
    /\ ret[2].staff = 5
    /\ Len(alerts[1]) = 1
    /\ alerts[1][1].type = "low_confidence_forecast"

GenerateDone(c) == op[c] = "generate_schedule" /\ pc[c] = "done"

\* C14: generate_schedule starts by setting current_cost to 0 and the alerts
\* to the empty list, and a run on a generator that has completed an
\* earlier run returns the same alerts and leaves the same current_cost as
\* the run with the same inputs on a freshly constructed generator with the
\* same configuration.
C14_ResetOnEachRun ==
    /\ \A c \in Calls :
          (op[c] = "generate_schedule" /\ pc[c] = "assign" /\ day[c] = 0) =>
              (current_cost[self[c]] = 0 /\ alerts[self[c]] = <<>>)
    /\ (GenerateDone(2) /\ GenerateDone(3)) =>
          /\ ret[2].alerts = ret[3].alerts
          /\ current_cost[self[2]] = current_cost[self[3]]

\* the earlier run on generator 1 left alerts and a cost; the second run on
\* it had other inputs and ends with another cost and other alerts, those of
\* the run on the fresh generator 2
C14_Witness ==
    /\ GenerateDone(1)
    /\ GenerateDone(2)
    /\ GenerateDone(3)
    /\ self[1] = self[2]
    /\ self[3] # self[2]
    /\ employees[1] # employees[2]
    /\ ret[1].alerts # ret[2].alerts
    /\ SumCost(ret[1].shifts) > 0
    /\ SumCost(ret[1].shifts) # current_cost[1]
    /\ current_cost[1] > 0
    /\ current_cost[1] = current_cost[2]
    /\ ret[2].alerts = ret[3].alerts

\* runs a and b were given the same employees, availability and no forecast
SameInputs(a, b) ==
    /\ employees[a] = employees[b]
    /\ availability[a] = availability[b]
    /\ forecast_data[a] = <<>>
    /\ forecast_data[b] = <<>>
    /\ weekly_budget[self[a]] = weekly_budget[self[b]]
    /\ min_staff_per_hour[self[a]] = min_staff_per_hour[self[b]]

OwnGenerator(c) == \A b \in Calls : b # c => self[b] # self[c]

\* run c returned other alerts, or left its generator with another cost,
\* than the run that was given the same inputs and ran alone
DiffersFromAlone(c) ==
    /\ GenerateDone(c)
    /\ GenerateDone(3)
    /\ \/ ret[c].alerts # ret[3].alerts
       \/ current_cost[self[c]] # current_cost[self[3]]

\* C16: when every invocation has a generator of its own, a run whose steps
\* interleave with those of another run returns the alerts, and leaves the
\* current_cost, of the run that gets the same inputs and runs alone, and
\* while it runs its generator's current_cost is the sum of the costs of its
\* own shifts.  (That two runs on one generator can differ from the run
\* alone is the state C16_Witness.)
C16_IsolatedRunsAgree ==
    \A c \in {1, 2} :
        OwnGenerator(c) =>
            /\ ~DiffersFromAlone(c)
            /\ op[c] = "generate_schedule" => current_cost[self[c]] = SumCost(shifts[c])

\* two runs on generator 1 have interleaved: run 1 returned alerts that are
\* not those of the run alone, and the generator's cost is the sum of the
\* costs of the shifts of both runs
C16_Witness ==
    /\ self[1] = self[2]
    /\ GenerateDone(1)
    /\ GenerateDone(2)
    /\ GenerateDone(3)
    /\ ret[1].alerts # ret[3].alerts
    /\ current_cost[1] # current_cost[3]
    /\ current_cost[1] = SumCost(ret[1].shifts) + SumCost(ret[2].shifts)
    /\ SumCost(ret[2].shifts) > 0

\* no employee of call c is eligible for any hour of any day
NobodyEligible(c) ==
    \A d \in Days, h \in Hours, i \in 1 .. Len(employees[c]) :
        ~Eligible(employees[c][i], availability[c], d, h)

\* the staff generate_schedule requires for (d, h) in call c
RequiredStaff(c, d, h) ==
    IF <<d, h>> \in DOMAIN forecast_data[c]
    THEN (IF forecast_data[c][<<d, h>>] \div 10 > 1
          THEN forecast_data[c][<<d, h>>] \div 10 ELSE 1)
    ELSE HeuristicValue(min_staff_per_hour[self[c]], h)

StaffedSlots(c) == {sl \in Days \X Hours : RequiredStaff(c, sl[1], sl[2]) > 0}

\* what C17 says of the states of a run
C17_Graceful ==
    \A c \in Calls :
        op[c] = "generate_schedule" =>
            /\ \A i \in 1 .. Len(employees[c]) :
                  \E k \in 1 .. Len(employee_assignments[c]) :
                      employee_assignments[c][k].emp_id = employees[c][i].id
            /\ pc[c] = "merge" => \A k \in 1 .. Len(blocks[c]) : blocks[c][k].hours # <<>>
            /\ pc[c] = "done" => DOMAIN ret[c] = {"shifts", "alerts"}
            /\ (pc[c] = "done" /\ NobodyEligible(c)) =>
                  /\ ret[c].shifts = <<>>
                  /\ current_cost[self[c]] = 0
                  /\ Len(ret[c].alerts) = Cardinality(StaffedSlots(c))
                  /\ forecast_data[c] = <<>> => Len(ret[c].alerts) = 126
                  /\ \A sl \in StaffedSlots(c) :
                        Len(SelectSeq(ret[c].alerts,
                                LAMBDA a : a = [type     |-> "insufficient_staff",
                                                severity |-> "warning",
                                                details  |->
                                                    [day |-> sl[1], hour |-> sl[2],
                                                     available |-> 0,
                                                     required |-> RequiredStaff(c, sl[1], sl[2])]]))
                            = 1

\* C17: for every employee list and availability list, the empty ones and
\* slots of unknown employees included, generate_schedule reaches its
\* return with (shifts, alerts): the id of every employee is a key of the
\* assignments (line 395 finds it), every block handed to _create_shift has
\* an hour, and the run ends; when no employee is eligible for any slot it
\* returns no shifts, leaves current_cost 0 and returns exactly one
\* insufficient_staff alert for each slot whose required staff is above 0,
\* 126 of them without forecast data.
C17_TerminatesGracefully == []C17_Graceful /\ <>GenerateDone(1)

\* one employee, whose id no slot carries: no shifts, cost 0, 126 alerts
C17_Witness ==
    /\ GenerateDone(1)
    /\ Len(employees[1]) = 1
    /\ Len(availability[1]) = 2
    /\ \A k \in 1 .. 2 : availability[1][k].employee_id = 2
    /\ forecast_data[1] = <<>>
    /\ ret[1].shifts = <<>>
    /\ current_cost[1] = 0
    /\ Len(ret[1].alerts) = 126

\* the route handler of call c has answered
RouteDone(c) == op[c] = "route_generate_schedule" /\ pc[c] = "done"

\* YYYY-WNN: four digits, "-W", one or two digits, and nothing else
WellFormedWeek(s) ==
    /\ Len(s) \in {7, 8}
    /\ \A i \in 1 .. 4 : IsDigitAt(s, i)
    /\ s[5] = "-"
    /\ s[6] = "W"
    /\ \A i \in 7 .. Len(s) : IsDigitAt(s, i)

NoRatedEmployee(c) ==
    \A i \in 1 .. Len(db.employees) :
        db.employees[i].business_id = arg[c].business_id
            => db.employees[i].hourly_rate = NULL

NoAvailabilityRecord(c) ==
    \A i \in 1 .. Len(db.availability) :
        db.availability[i].business_id # arg[c].business_id

\* C18: a request with a malformed week string, for a business with no
\* employee having an hourly rate, or for a business with no availability
\* record is answered with status 400, generate_schedule is not invoked and
\* no schedule or shift row is written.
C18_RejectedWith400 ==
    (RouteDone(1) /\ (\/ ~WellFormedWeek(arg[1].week)
                      \/ NoRatedEmployee(1)
                      \/ NoAvailabilityRecord(1))) =>
        /\ ret[1].status_code = 400
        /\ op[2] = "none"
        /\ db.schedules = <<>>
        /\ db.shifts = <<>>

\* the assignment phase of the generate_schedule run of call c is over
AssignmentDone(c) ==
    op[c] = "generate_schedule" /\ (pc[c] \in {"merge", "done"}
                                    \/ (pc[c] = "assign" /\ day[c] = NumDays))

\* positions in the employee list of the employees eligible for (d, h)
EligibleAt(c, d, h) ==
    {i \in 1 .. Len(employees[c]) : Eligible(employees[c][i], availability[c], d, h)}

\* employee i is among the RequiredStaff(c, d, h) cheapest eligible ones,
\* ties by the position in the list
SelectedAt(c, i, d, h) ==
    /\ i \in EligibleAt(c, d, h)
    /\ Cardinality({j \in EligibleAt(c, d, h) :
           \/ employees[c][j].hourly_rate < employees[c][i].hourly_rate
           \/ (employees[c][j].hourly_rate = employees[c][i].hourly_rate /\ j < i)})
          < RequiredStaff(c, d, h)

\* the assignment list of the employee with id emp_id
AssignmentsOf(c, emp_id) ==
    LET k == CHOOSE k \in 1 .. Len(employee_assignments[c]) :
                 employee_assignments[c][k].emp_id = emp_id
    IN  employee_assignments[c][k].hours

\* the positions of the employees whose list holds (d, h)
AssignedAt(c, d, h) ==
    {i \in 1 .. Len(employees[c]) :
        \E n \in 1 .. Len(AssignmentsOf(c, employees[c][i].id)) :
            AssignmentsOf(c, employees[c][i].id)[n] = <<d, h>>}

\* C19: after the assignment phase the list of employee e holds (d, h) iff
\* the required staff of (d, h) is above 0 and e is among the employees
\* selected for (d, h); no pair is held twice; the pairs ascend by (day,
\* hour); the number of employees assigned to a slot is min(required,
\* eligible) and not above required.
C19_AssignmentLists ==
    \A c \in Calls :
        AssignmentDone(c) =>
            /\ \A i \in 1 .. Len(employees[c]) :
                  LET hs == AssignmentsOf(c, employees[c][i].id)
                  IN  /\ \A d \in Days, h \in Hours :
                            (\E n \in 1 .. Len(hs) : hs[n] = <<d, h>>)
                                <=> (RequiredStaff(c, d, h) > 0 /\ SelectedAt(c, i, d, h))
                      /\ \A m, n \in 1 .. Len(hs) : m # n => hs[m] # hs[n]
                      /\ \A n \in 1 .. (Len(hs) - 1) :
                            \/ hs[n][1] < hs[n + 1][1]
                            \/ (hs[n][1] = hs[n + 1][1] /\ hs[n][2] < hs[n + 1][2])
            /\ \A d \in Days, h \in Hours :
                  /\ Cardinality(AssignedAt(c, d, h))
                        = Min(RequiredStaff(c, d, h), Cardinality(EligibleAt(c, d, h)))
                  /\ Cardinality(AssignedAt(c, d, h)) <= RequiredStaff(c, d, h)

\* a finished assignment phase with a slot that has more eligible employees
\* than required, of which the cheaper one alone holds the slot
C19_Witness ==
    /\ AssignmentDone(1)
    /\ \E d \in Days, h \in Hours :
          /\ 0 < RequiredStaff(1, d, h)
          /\ RequiredStaff(1, d, h) < Cardinality(EligibleAt(1, d, h))
          /\ Cardinality(AssignedAt(1, d, h)) = RequiredStaff(1, d, h)
          /\ \E i \in AssignedAt(1, d, h), j \in EligibleAt(1, d, h) \ AssignedAt(1, d, h) :
                employees[1][i].hourly_rate < employees[1][j].hourly_rate
    /\ \E i \in 1 .. Len(employees[1]) : Len(AssignmentsOf(1, employees[1][i].id)) > 1

\* the day of the week a returned shift is on
ShiftDay(sh) == CHOOSE d \in Days : get_date_for_day(today, d) = sh.date

\* the hours from the start of a returned shift up to its end
CoveredHours(sh) ==
    IF sh.end_time > sh.start_time
    THEN (sh.start_time \div MinutesPerHour) .. ((sh.end_time \div MinutesPerHour) - 1)
    ELSE (sh.start_time \div MinutesPerHour) .. (NumHours - 1)

\* the hours of day d in the assignment list of the employee with id emp_id
AssignedOn(c, emp_id, d) ==
    {h \in Hours : \E n \in 1 .. Len(AssignmentsOf(c, emp_id)) :
                       AssignmentsOf(c, emp_id)[n] = <<d, h>>}

\* what n hours cost at rate r, in sixtieths
PaidFor(n, r) == (n * 60 - (IF n > 4 THEN (n - 4) * 15 ELSE 0)) * r

\* C20: a returned shift starts and ends at assigned hours, covers every
\* hour in between, assigned or not, where an unassigned one lies in a gap
\* of at most 3 hours between two assigned ones, and its total_cost is that
\* of all the hours it covers; so a shift can cover and be paid for an hour
\* that is absent from the assignment list of its employee, and at which
\* the employee is not available (C20_Witness).
C20_PaidForCoveredHours ==
    \A c \in Calls :
        GenerateDone(c) =>
            \A k \in 1 .. Len(ret[c].shifts) :
                LET sh == ret[c].shifts[k]
                    cov == CoveredHours(sh)
                    asg == AssignedOn(c, sh.employee_id, ShiftDay(sh))
                IN  /\ \E d \in Days : get_date_for_day(today, d) = sh.date
                    /\ cov # {}
                    /\ \A h \in cov :
                          \/ h \in asg
                          \/ \E a, b \in asg \cap cov : a < h /\ h < b /\ b - a <= 4
                    /\ \A h \in cov :
                          ((\A x \in cov : x >= h) \/ (\A x \in cov : x <= h)) => h \in asg
                    /\ sh.total_cost = PaidFor(Cardinality(cov), sh.hourly_rate)

\* a returned shift covers an hour that is absent from the assignment list
\* of its employee and at which the employee is not available, and costs
\* more than its assigned hours
C20_Witness ==
    /\ GenerateDone(1)
    /\ \E k \in 1 .. Len(ret[1].shifts) :
          LET sh == ret[1].shifts[k]
              asg == AssignedOn(1, sh.employee_id, ShiftDay(sh))
          IN  /\ \E h \in CoveredHours(sh) :
                    /\ h \notin asg
                    /\ \A i \in 1 .. Len(employees[1]) :
                          employees[1][i].id = sh.employee_id =>
                              ~Eligible(employees[1][i], availability[1], ShiftDay(sh), h)
              /\ sh.total_cost > PaidFor(Cardinality(asg \cap CoveredHours(sh)),
                                         sh.hourly_rate)

\* the window of slot sl contains the hour h
WindowContains(sl, h) ==
    IF sl.start_time <= sl.end_time
    THEN sl.start_time <= h * 60 /\ h * 60 <= sl.end_time
    ELSE h * 60 >= sl.start_time \/ h * 60 <= sl.end_time

\* C21: when at least as many employees are required as are listed (the
\* returned employees are then the eligible ones), an employee is returned
\* if and only if the first slot in availability order with the employee's
\* id, the target day and is_available = true has a window that contains
\* the target hour: a later slot that contains it does not make the
\* employee eligible, and a slot with is_available = false is passed over
\* and is never that first slot.
C21_FirstSlotDecides ==
    \A c \in Calls :
        (PickDone(c) /\ arg[c].required_count >= Len(employees[c])) =>
            \A i \in 1 .. Len(employees[c]) :
                LET emp == employees[c][i]
                    slots == availability[c]
                    d == arg[c].day
                    h == arg[c].hour
                    mine == {k \in 1 .. Len(slots) :
                                slots[k].employee_id = emp.id /\ slots[k].day_of_week = d}
                    avail == {k \in mine : slots[k].is_available}
                IN  /\ IsSelected(c, emp) <=>
                          \E k \in avail : /\ \A j \in avail : k <= j
                                           /\ WindowContains(slots[k], h)
                    /\ \A k \in avail :
                          (~WindowContains(slots[k], h) /\ \A j \in avail : k <= j)
                              => ~IsSelected(c, emp)
                    /\ (\A k \in mine : ~slots[k].is_available) => ~IsSelected(c, emp)

\* the first slot of the employee on the target day is 22:00-06:00, a later
\* one is 09:30-17:00, the target hour is 10: nobody is returned
C21_Witness ==
    /\ PickDone(1)
    /\ employees[1] = <<[id |-> 1, hourly_rate |-> 10]>>
    /\ availability[1] = <<Slot(1, 1, time(22, 0), time(6, 0), TRUE),
                           Slot(1, 1, time(9, 30), time(17, 0), TRUE)>>
    /\ arg[1] = [hour |-> 10, day |-> 1, required_count |-> 1]
    /\ ret[1].selected = <<>>

\* the position of emp in the employee list of call c
InputPosition(c, emp) == CHOOSE i \in 1 .. Len(employees[c]) : employees[c][i] = emp

\* C22: among the eligible employees of equal hourly_rate the returned list
\* keeps the order of the input list, and when one of them is returned
\* every eligible one of the same rate that stands earlier in the input is
\* returned too.
C22_TiesKeepInputOrder ==
    \A c \in Calls :
        PickDone(c) =>
            LET sel == ret[c].selected
                emps == employees[c]
            IN  /\ \A k, l \in 1 .. Len(sel) :
                      (k < l /\ sel[k].hourly_rate = sel[l].hourly_rate) =>
                          InputPosition(c, sel[k]) < InputPosition(c, sel[l])
                /\ \A i, j \in EligibleIdx(c) :
                      (/\ i < j
                       /\ emps[i].hourly_rate = emps[j].hourly_rate
                       /\ IsSelected(c, emps[j])) => IsSelected(c, emps[i])

\* two eligible employees of equal rate, one required: the first of the
\* input list is returned
C22_Witness ==
    /\ PickDone(1)
    /\ Len(employees[1]) = 2
    /\ employees[1][1].hourly_rate = employees[1][2].hourly_rate
    /\ EligibleIdx(1) = {1, 2}
    /\ arg[1].required_count = 1
    /\ ret[1].selected = <<employees[1][1]>>

\* C23: the shift of a block starts at the first hour of the block at
\* minute 0 and ends at the last hour + 1 at minute 0, less 24 hours when
\* that is 24 or more, so that a block whose last hour is 23 ends at 00:00;
\* when the last hour is not 23, end hour - start hour is the number of
\* hours of the block.
C23_StartAndEndTimes ==
    \A c \in Calls :
        op[c] = "merge_hours_to_shifts" =>
            \A k \in 1 .. Len(shifts[c]) :
                LET sh == shifts[c][k]
                    hs == AllBlocks(c)[k].hours
                    first == hs[1]
                    last == hs[Len(hs)]
                IN  /\ sh.start_time = first * 60
                    /\ sh.end_time = (IF last + 1 >= 24 THEN last + 1 - 24 ELSE last + 1) * 60
                    /\ sh.start_time % 60 = 0 /\ sh.end_time % 60 = 0
                    /\ sh.end_time \in 0 .. (23 * 60)
                    /\ last = 23 => sh.end_time = 0
                    /\ last # 23 =>
                          (sh.end_time \div 60) - (sh.start_time \div 60) = Len(hs)

\* the hours 20 .. 23: the shift is 20:00-00:00
C23_Witness ==
    /\ op[1] = "merge_hours_to_shifts"
    /\ pc[1] = "done"
    /\ AssignedHours(1) = 20 .. 23
    /\ Len(ret[1].shifts) = 1
    /\ ret[1].shifts[1].start_time = 20 * 60
    /\ ret[1].shifts[1].end_time = 0

\* the most recent Sunday on or before today
RecentSunday == CHOOSE x \in (today - 6) .. today : x % 7 = 6

\* the route handler of call c has stored a schedule
RouteStored(c) == RouteDone(c) /\ ret[c].status_code = 200

\* C24: the date of every shift is the most recent Sunday on or before
\* today (today when today is a Sunday) plus the day_of_week of its block,
\* so it lies in the Sunday-to-Saturday week of today whatever week the
\* request names; the week_start parsed from the request is stored on the
\* schedule row and on no shift row.
C24_DatesFromToday ==
    RouteStored(1) =>
        /\ RecentSunday <= today /\ today - RecentSunday < 7
        /\ today % 7 = 6 => RecentSunday = today
        /\ Len(db.shifts) = Len(AllBlocks(2))
        /\ \A k \in 1 .. Len(db.shifts) :
              /\ db.shifts[k].date = RecentSunday + AllBlocks(2)[k].day
              /\ db.shifts[k].date \in RecentSunday .. (RecentSunday + 6)
              /\ ret[1].shifts[k].date = db.shifts[k].date
        /\ Len(db.schedules) = 1
        /\ db.schedules[1].week_start_date = ret[1].week_start
        /\ db.schedules[1].week_start_date % 7 = 0
        /\ arg[1].week = <<"2", "0", "2", "5", "-", "W", "4", "3">> =>
              db.schedules[1].week_start_date = 739543

\* a schedule requested for 2025-W43 on a Sunday: the shifts are dated from
\* that Sunday on, far from the week_start of the schedule row
C24_Witness ==
    /\ RouteStored(1)
    /\ today = 6
    /\ arg[1].week = <<"2", "0", "2", "5", "-", "W", "4", "3">>
    /\ db.shifts # <<>>
    /\ db.shifts[1].date = 6
    /\ \E k \in 1 .. Len(db.shifts) : db.shifts[k].date = 12
    /\ db.schedules[1].week_start_date = 739543

\* ------------------------------------------------------------------------
\* load_forecast and the fallback after it
\* ------------------------------------------------------------------------

\* call c runs load_forecast in this step
LoadStep(c) == pc[c] = "idle" /\ pc'[c] = "done" /\ op'[c] = "load_forecast"

LoadDone(c) == op[c] = "load_forecast" /\ pc[c] = "done"

\* the query of call c raises, or one of its rows does
LoadRaises(c) ==
    \/ arg[c].result.error # "none"
    \/ \E i \in 1 .. Len(arg[c].result.rows) : BadRow(arg[c].result.rows[i])

\* exactly one alert of the type and severity is appended by the step
OneAlertAppended(c, type, severity) ==
    /\ Len(alerts'[self[c]]) = Len(alerts[self[c]]) + 1
    /\ SubSeq(alerts'[self[c]], 1, Len(alerts[self[c]])) = alerts[self[c]]
    /\ alerts'[self[c]][Len(alerts'[self[c]])].type = type
    /\ alerts'[self[c]][Len(alerts'[self[c]])].severity = severity

\* the rows of call c are stored under forecast_cache[week] by the step
RowsStored(c) ==
    \E k \in 1 .. Len(forecast_cache'[self[c]]) :
        /\ forecast_cache'[self[c]][k].week = arg[c].week
        /\ \A i \in 1 .. Len(arg[c].result.rows) :
              LET row == arg[c].result.rows[i]
              IN  /\ <<row.date, row.hour>> \in DOMAIN forecast_cache'[self[c]][k].data
                  /\ forecast_cache'[self[c]][k].data[<<row.date, row.hour>>] =
                        [demand |-> row.demand, confidence |-> row.confidence]

\* the three outcomes of one load_forecast step
LoadOutcome(c) ==
    LoadStep(c) =>
        IF LoadRaises(c)
        THEN /\ OneAlertAppended(c, "forecast_error", "warning")
             /\ ret'[c].returned = FALSE
        ELSE IF arg[c].result.rows = <<>>
        THEN /\ OneAlertAppended(c, "missing_forecast", "warning")
             /\ ret'[c].returned = FALSE
             /\ forecast_cache' = forecast_cache
        ELSE /\ OneAlertAppended(c, "forecast_loaded", "info")
             /\ ret'[c].returned = TRUE
             /\ RowsStored(c)

\* the estimate of call 3 follows a load_forecast of its week that returned
\* False
AfterFalseLoad ==
    /\ LoadDone(2)
    /\ ret[2].returned = FALSE
    /\ ForecastDone(3)

\* C25: load_forecast never raises: with no rows it appends exactly one
\* missing_forecast warning alert, returns False and leaves forecast_cache
\* unchanged; when a step raises it appends exactly one forecast_error
\* warning alert and returns False; with rows it stores them under
\* forecast_cache[week], appends exactly one forecast_loaded info alert and
\* returns True.  After a False result, demand_to_staff_with_forecast for a
\* date of that week returns the heuristic value.
C25_LoadForecastOutcomes ==
    /\ [][\A c \in {1, 2} : LoadOutcome(c)]_vars
    /\ [](AfterFalseLoad =>
            ret[3].staff = HeuristicValue(min_staff_per_hour[self[3]], arg[3].hour))

\* the part of C25 that is about load_forecast alone
C25_OutcomesOfLoad == [][\A c \in {1, 2} : LoadOutcome(c)]_vars

\* a load that raised at its second row after storing the first: the hour of
\* the first row is estimated from the forecast, not by the heuristic
C25_PartialLoadServed ==
    /\ AfterFalseLoad
    /\ arg[2].result.error = "none"
    /\ LoadRaises(2)
    /\ arg[1].result.rows = <<>>
    /\ arg[3].hour = 3
    /\ ret[3].staff # HeuristicValue(min_staff_per_hour[self[3]], arg[3].hour)

\* ------------------------------------------------------------------------
\* The bounds of a same-day window
\* ------------------------------------------------------------------------

\* position of the first available slot of emp on day d; 0 when there is none
FirstAvailable(slots, emp, d) ==
    LET avail == {k \in 1 .. Len(slots) :
                     /\ slots[k].employee_id = emp.id
                     /\ slots[k].day_of_week = d
                     /\ slots[k].is_available}
    IN  IF avail = {} THEN 0 ELSE CHOOSE k \in avail : \A j \in avail : k <= j

\* C26: when at least as many employees are required as are listed (the
\* returned employees are then the eligible ones) and the slot that decides
\* for an employee has start_time <= end_time, the employee is returned for
\* target hour h if and only if start_time <= h:00 <= end_time, both bounds
\* included: the hour that begins at end_time is eligible, and a slot with
\* start_time = end_time makes eligible the hour that begins at that time
\* and no other hour.
C26_InclusiveWindow ==
    \A c \in Calls :
        (PickDone(c) /\ arg[c].required_count >= Len(employees[c])) =>
            \A i \in 1 .. Len(employees[c]) :
                LET emp == employees[c][i]
                    k == FirstAvailable(availability[c], emp, arg[c].day)
                    sl == availability[c][k]
                    t == time(arg[c].hour, 0)
                IN  (k # 0 /\ sl.start_time <= sl.end_time) =>
                        /\ IsSelected(c, emp) <=> (sl.start_time <= t /\ t <= sl.end_time)
                        /\ t = sl.end_time => IsSelected(c, emp)
                        /\ t = sl.start_time => IsSelected(c, emp)
                        /\ sl.start_time = sl.end_time =>
                              (IsSelected(c, emp) <=> t = sl.start_time)

\* target hour 17: the employee with the slot 09:00-17:00 and the employee
\* with the slot 17:00-17:00 are both returned
C26_Witness ==
    /\ PickDone(1)
    /\ Len(employees[1]) = 2
    /\ availability[1] = <<Slot(1, 1, time(9, 0), time(17, 0), TRUE),
                           Slot(2, 1, time(17, 0), time(17, 0), TRUE)>>
    /\ arg[1].hour = 17
    /\ arg[1].required_count = 2
    /\ Len(ret[1].selected) = 2

\* ------------------------------------------------------------------------
\* The shifts of one employee on one day
\* ------------------------------------------------------------------------

MergeDone(c) == op[c] = "merge_hours_to_shifts" /\ pc[c] = "done"

\* the first and the last hour covered by a returned shift
FirstHour(sh) == CHOOSE h \in CoveredHours(sh) : \A x \in CoveredHours(sh) : h <= x

LastHour(sh) == CHOOSE h \in CoveredHours(sh) : \A x \in CoveredHours(sh) : h >= x

\* C27: the shifts returned by merge_hours_to_shifts for one employee and
\* one day cover pairwise disjoint hour ranges; between two consecutive
\* shifts lie at least 4 hours that belong to no shift; every assigned hour
\* lies in exactly one shift; the first and the last hour of every shift are
\* assigned hours.
C27_DisjointShiftsOfADay ==
    \A c \in Calls :
        (MergeDone(c) /\ employees[c] # <<>>) =>
            LET H == AssignedHours(c)
                ss == ret[c].shifts
            IN  /\ \A k \in 1 .. Len(ss) :
                      /\ ss[k].employee_id = 1
                      /\ ss[k].date = ss[1].date
                      /\ CoveredHours(ss[k]) # {}
                      /\ FirstHour(ss[k]) \in H
                      /\ LastHour(ss[k]) \in H
                /\ \A k, l \in 1 .. Len(ss) :
                      k # l => CoveredHours(ss[k]) \cap CoveredHours(ss[l]) = {}
                /\ \A k \in 1 .. (Len(ss) - 1) :
                      LET between == (LastHour(ss[k]) + 1) .. (FirstHour(ss[k + 1]) - 1)
                      IN  /\ Cardinality(between) >= 4
                          /\ \A l \in 1 .. Len(ss) : between \cap CoveredHours(ss[l]) = {}
                          /\ between \cap H = {}
                /\ \A h \in H :
                      Cardinality({k \in 1 .. Len(ss) : h \in CoveredHours(ss[k])}) = 1

\* hours 9, 13 and 18 handed over in descending order: the shifts 09:00-14:00
\* and 18:00-19:00, with the four hours 14 .. 17 between them
C27_Witness ==
    /\ MergeDone(1)
    /\ employees[1] # <<>>
    /\ employee_assignments[1][1].hours = <<<<3, 18>>, <<3, 13>>, <<3, 9>>>>
    /\ Len(ret[1].shifts) = 2
    /\ CoveredHours(ret[1].shifts[1]) = 9 .. 13
    /\ CoveredHours(ret[1].shifts[2]) = {18}

\* ------------------------------------------------------------------------
\* The order of the returned alerts
\* ------------------------------------------------------------------------

\* positions of the alerts of type t in the list as
PositionsOfType(as, t) == {i \in 1 .. Len(as) : as[i].type = t}

\* slot (d1, h1) comes before slot (d2, h2)
SlotBefore(d1, h1, d2, h2) == d1 < d2 \/ (d1 = d2 /\ h1 < h2)

\* C28: in the alert list returned by generate_schedule every
\* insufficient_staff alert stands before every budget_exceeded alert; the
\* insufficient_staff alerts are in strictly increasing (day, hour) order,
\* so that no slot has two; the budget_exceeded alerts belong, in order, to
\* distinct returned shifts in shift order; no alert is of another type.
C28_AlertOrder ==
    \A c \in Calls :
        GenerateDone(c) =>
            LET as == ret[c].alerts
                ss == ret[c].shifts
                short == PositionsOfType(as, "insufficient_staff")
                budget == PositionsOfType(as, "budget_exceeded")
                found == AlertsOfType(as, "budget_exceeded")
                over == {i \in 1 .. Len(ss) :
                            CostBefore(ss, i) + ss[i].total_cost
                                > Money(weekly_budget[self[c]])}
            IN  /\ short \cup budget = 1 .. Len(as)
                /\ \A i \in short, j \in budget : i < j
                /\ \A i, j \in short :
                      i < j => SlotBefore(as[i].details.day, as[i].details.hour,
                                          as[j].details.day, as[j].details.hour)
                /\ \A i, j \in short :
                      (/\ as[i].details.day = as[j].details.day
                       /\ as[i].details.hour = as[j].details.hour) => i = j
                /\ Len(found) <= Len(ss)
                /\ Len(found) = Cardinality(over)
                /\ \A k \in 1 .. Len(found) :
                      /\ found[k].details.shift_cost = ss[Nth(over, k)].total_cost
                      /\ found[k].details.current_cost = CostBefore(ss, Nth(over, k))

\* a returned list with two insufficient_staff alerts for different hours of
\* one day and for different days, followed by a budget_exceeded alert
C28_Witness ==
    /\ GenerateDone(1)
    /\ Len(ret[1].alerts) >= 4
    /\ ret[1].alerts[1].type = "insufficient_staff"
    /\ ret[1].alerts[2].type = "insufficient_staff"
    /\ ret[1].alerts[1].details.day = ret[1].alerts[2].details.day
    /\ \E k \in 3 .. Len(ret[1].alerts) :
          /\ ret[1].alerts[k].type = "insufficient_staff"
          /\ ret[1].alerts[2].details.day < ret[1].alerts[k].details.day
    /\ ret[1].alerts[Len(ret[1].alerts)].type = "budget_exceeded"
    /\ Len(ret[1].shifts) >= 2

\* ------------------------------------------------------------------------
\* The running cost and the budget alerts of a run
\* ------------------------------------------------------------------------

\* call c is inside a generate_schedule run, past the reset at its start
InRun(c) == op[c] = "generate_schedule"

\* the step appends a shift to the shifts of call c
ShiftCreated(c) == InRun(c) /\ Len(shifts'[c]) = Len(shifts[c]) + 1

BudgetAlerts(g) == AlertsOfType(alerts[g], "budget_exceeded")

\* the shifts of call c whose cost, added to the cost of the shifts before
\* them, exceeds the budget
OverBudgetShifts(c) ==
    {i \in 1 .. Len(shifts[c]) :
        CostBefore(shifts[c], i) + shifts[c][i].total_cost
            > Money(weekly_budget[self[c]])}

\* C29: in one generate_schedule run with hourly rates that are not negative,
\* current_cost never decreases after the reset at the start of the run;
\* once a budget_exceeded alert is in the list, every shift created later
\* appends one more; the number of budget_exceeded alerts is the number of
\* shifts from the first over-budget shift to the last shift.
C29_OverBudgetPersists ==
    /\ [][\A c \in Calls :
            /\ InRun(c) => current_cost'[self[c]] >= current_cost[self[c]]
            /\ (ShiftCreated(c) /\ BudgetAlerts(self[c]) # <<>>) =>
                  AlertsOfType(alerts'[self[c]], "budget_exceeded") =
                      Append(BudgetAlerts(self[c]),
                             alerts'[self[c]][Len(alerts'[self[c]])])]_vars
    /\ [](\A c \in Calls :
            InRun(c) =>
                LET over == OverBudgetShifts(c)
                IN  /\ \A i \in over : \A j \in i .. Len(shifts[c]) : j \in over
                    /\ Len(BudgetAlerts(self[c])) =
                          IF over = {} THEN 0
                          ELSE Len(shifts[c]) - Nth(over, 1) + 1)

\* rate 20 and budget 100: the first shift of employee 1 costs 60, the second
\* brings the total to 120, and the shift of employee 2, at rate 0, costs
\* nothing: two budget_exceeded alerts for three shifts
C29_Witness ==
    /\ GenerateDone(1)
    /\ Len(ret[1].shifts) = 3
    /\ OverBudgetShifts(1) = {2, 3}
    /\ ret[1].shifts[3].total_cost = 0
    /\ Len(BudgetAlerts(1)) = 2
    /\ current_cost[1] = Money(120)

\* ------------------------------------------------------------------------
\* total_hours of the schedule record
\* ------------------------------------------------------------------------

\* the number of hours of the blocks bs, one block for each shift
RECURSIVE BlockHoursTotal(_)
BlockHoursTotal(bs) ==
    IF bs = <<>> THEN 0 ELSE Len(Head(bs).hours) + BlockHoursTotal(Tail(bs))

\* the blocks of bs whose last hour is not 23
DayBlocksOnly(bs) == SelectSeq(bs, LAMBDA b : b.hours[Len(b.hours)] # NumHours - 1)

\* C30: total_hours of the schedule record that save_schedule_to_db stores
\* is the sum over the shifts of the schedule of the number of hours each
\* shift covers, the shifts that end at 00:00 (block ending at hour 23)
\* included.
C30_TotalHoursStored ==
    RouteStored(1) =>
        /\ Len(db.schedules) = 1
        /\ Len(db.shifts) = Len(AllBlocks(2))
        /\ db.schedules[1].total_hours = BlockHoursTotal(AllBlocks(2))

\* what the code stores: the hours of the shifts that do not end at 00:00
C30_HoursOfDayShiftsStored ==
    RouteStored(1) =>
        db.schedules[1].total_hours = BlockHoursTotal(DayBlocksOnly(AllBlocks(2)))

\* a stored schedule with a shift 21:00-00:00 of three hours that total_hours
\* leaves out
C30_MidnightShiftLeftOut ==
    /\ RouteStored(1)
    /\ \E k \in 1 .. Len(db.shifts) :
          /\ db.shifts[k].start_time = time(21, 0)
          /\ db.shifts[k].end_time = time(0, 0)
    /\ db.schedules[1].total_hours = BlockHoursTotal(AllBlocks(2)) - 3

====
